---- MODULE Spec2Model ----
(***************************************************************************)
(* BiometricFlow-ZK: the security gate (security_middleware,               *)
(* check_rate_limit, is_ip_allowed, is_safe_request), the credential       *)
(* validator and token service (validate_api_key, create_jwt_token,        *)
(* verify_jwt_token) of core/security.py, and the fan-out / merge engine   *)
(* of backend/unified_gateway.py.                                          *)
(***************************************************************************)
EXTENDS Integers, Sequences, FiniteSets, TLC

VARIABLES
    \* ---- SecurityConfig (core/security.py) ----
    env_allowed_ips,        \* the entries of the ALLOWED_IPS environment variable
    allowed_ips,            \* security_config.allowed_ips (a list)
    rate_limit_requests,    \* security_config.rate_limit_requests (N)
    rate_limit_window,      \* security_config.rate_limit_window (W, seconds)
    \* ---- security gate ----
    now,                    \* time.time(), in seconds
    rate_limit_storage,     \* Dict[str, List[float]]
    blocked_ips_cache,      \* Dict[str, float]
    last,                   \* the request security_middleware handled last
    accepted_log,           \* per client: times of its latest accepted requests
    trigger_time,           \* per client: time of the 429 that followed an acceptance
    prev_outcome,           \* per client: outcome of its previous rate-limited request
    \* ---- token service and credential validator ----
    jwt_expire_hours,       \* security_config.jwt_expire_hours
    jwt_exp_inclusive,      \* the installed PyJWT expires a token at exp (TRUE) or after exp (FALSE)
    allow_no_auth,          \* ENVIRONMENT=development and ALLOW_NO_AUTH=true
    clock,                  \* datetime.utcnow(), in ticks
    token,                  \* the token create_jwt_token issued last
    auth,                   \* the last call of validate_api_key and its outcome
    seen,                   \* per kind of invalid token: the response it got
    \* ---- aggregation gateway (backend/unified_gateway.py) ----
    backends,               \* config.backends, in registry order
    req,                    \* the inbound request being served
    phase,                  \* "idle", "calling" (outbound calls in flight) or "done"
    calls,                  \* per target: the outbound call of call_backend
    upstream,               \* per target: what the backend answered
    response,               \* the response to the inbound request
    \* ---- requests in flight in the event loop ----
    inflight                \* per coroutine of security_middleware: where it stands

gateVars == <<env_allowed_ips, allowed_ips, rate_limit_requests, rate_limit_window, now,
              rate_limit_storage, blocked_ips_cache, last,
              accepted_log, trigger_time, prev_outcome>>

tokenVars == <<jwt_expire_hours, jwt_exp_inclusive, allow_no_auth, clock,
               token, auth, seen>>

fanVars == <<backends, req, phase, calls, upstream, response>>

concVars == <<inflight>>

vars == <<gateVars, tokenVars, fanVars, concVars>>

\* ------------------------------------------------------------------------
\* Bounds of the model
\* ------------------------------------------------------------------------
MaxTime == 300          \* the gate's clock stops advancing here
MaxRequests == 2        \* largest rate-limit threshold N drawn at start-up
TicksPerSecond == 2     \* resolution of the token clock
MaxStartTick == 3       \* latest start of the token clock, in ticks
MaxItems == 1           \* most entities in one backend answer
MaxInflight == 2        \* most requests the event loop handles at once
MaxUsers == 2           \* most users in one answer of the wide-key listing

\* ------------------------------------------------------------------------
\* Generic helpers
\* ------------------------------------------------------------------------
SeqToSet(s) == {s[i] : i \in 1..Len(s)}

\* d[k] = v  on a dict modelled as a function with a growing domain
DictSet(d, k, v) == [x \in (DOMAIN d) \cup {k} |-> IF x = k THEN v ELSE d[x]]

\* del d[k]
DictDel(d, k) == [x \in (DOMAIN d) \ {k} |-> d[x]]

EmptyDict == [x \in {} |-> 0]

\* ------------------------------------------------------------------------
\* SecurityConfig
\* ------------------------------------------------------------------------
max_request_size == 5242880
BlockSeconds == 300

security_headers ==
    {"X-Content-Type-Options", "X-Frame-Options", "X-XSS-Protection",
     "Referrer-Policy", "X-Powered-By", "Cache-Control", "Pragma", "Expires"}

default_ips == <<"127.0.0.1", "::1", "localhost">>

ngrok_ranges == <<"3.20.0.0/16", "3.21.0.0/16", "3.22.0.0/16", "3.23.0.0/16",
                  "13.59.0.0/16", "18.216.0.0/16", "18.217.0.0/16">>

\* SecurityConfig._get_allowed_ips: the defaults always come first, then the
\* entries of ALLOWED_IPS, then the NGROK ranges when NGROK_ENABLED=true.
GetAllowedIps(custom_ips, ngrok_enabled) ==
    default_ips \o custom_ips \o (IF ngrok_enabled THEN ngrok_ranges ELSE <<>>)

\* Values of the ALLOWED_IPS / NGROK_ENABLED environment the model starts from
AllowedIpsEnv == {<<>>, <<"8.8.8.0/24">>}
NgrokEnabledEnv == {FALSE}
WindowEnv == {100, 400}

\* ------------------------------------------------------------------------
\* ipaddress.ip_address / ipaddress.ip_network on the literals in use
\* ------------------------------------------------------------------------
ValueError == [ver |-> 0, val |-> 0, prefix |-> 0]

V4(a, b, c, d) == ((a * 256 + b) * 256 + c) * 256 + d

ip_address(s) ==
    CASE s = "127.0.0.1" -> [ver |-> 4, val |-> V4(127, 0, 0, 1), prefix |-> 32]
      [] s = "8.8.8.8"   -> [ver |-> 4, val |-> V4(8, 8, 8, 8), prefix |-> 32]
      [] s = "8.8.9.9"   -> [ver |-> 4, val |-> V4(8, 8, 9, 9), prefix |-> 32]
      [] s = "3.20.7.7"  -> [ver |-> 4, val |-> V4(3, 20, 7, 7), prefix |-> 32]
      [] s = "::1"       -> [ver |-> 6, val |-> 1, prefix |-> 128]
      [] OTHER           -> ValueError

ip_network(s) ==
    CASE s = "8.8.8.0/24"    -> [ver |-> 4, val |-> V4(8, 8, 8, 0), prefix |-> 24]
      [] s = "3.20.0.0/16"   -> [ver |-> 4, val |-> V4(3, 20, 0, 0), prefix |-> 16]
      [] s = "3.21.0.0/16"   -> [ver |-> 4, val |-> V4(3, 21, 0, 0), prefix |-> 16]
      [] s = "3.22.0.0/16"   -> [ver |-> 4, val |-> V4(3, 22, 0, 0), prefix |-> 16]
      [] s = "3.23.0.0/16"   -> [ver |-> 4, val |-> V4(3, 23, 0, 0), prefix |-> 16]
      [] s = "13.59.0.0/16"  -> [ver |-> 4, val |-> V4(13, 59, 0, 0), prefix |-> 16]
      [] s = "18.216.0.0/16" -> [ver |-> 4, val |-> V4(18, 216, 0, 0), prefix |-> 16]
      [] s = "18.217.0.0/16" -> [ver |-> 4, val |-> V4(18, 217, 0, 0), prefix |-> 16]
      [] OTHER               -> ValueError

IsCidr(s) == s \in {"8.8.8.0/24"} \cup SeqToSet(ngrok_ranges)

\* client_addr in network
AddrInNetwork(addr, net) ==
    /\ addr.ver = net.ver
    /\ addr.val \div (2 ^ (32 - net.prefix)) = net.val \div (2 ^ (32 - net.prefix))

\* is_ip_allowed(client_ip)
is_ip_allowed(client_ip, ips) ==
    IF Len(ips) = 0 THEN TRUE
    ELSE IF client_ip \in SeqToSet(ips) THEN TRUE
    ELSE IF ip_address(client_ip) = ValueError THEN FALSE
    ELSE \E i \in 1..Len(ips) :
            IF IsCidr(ips[i])
            THEN /\ ip_network(ips[i]) # ValueError
                 /\ AddrInNetwork(ip_address(client_ip), ip_network(ips[i]))
            ELSE /\ ip_address(ips[i]) # ValueError
                 /\ ip_address(client_ip) = ip_address(ips[i])

\* ------------------------------------------------------------------------
\* is_safe_request: a body is a sequence of text fragments
\* ------------------------------------------------------------------------
Lower(f) ==
    CASE f = "<SCRIPT" -> "<script"
      [] f = "DROP"    -> "drop"
      [] f = "UNION"   -> "union"
      [] OTHER         -> f

LowerSeq(b) == [i \in 1..Len(b) |-> Lower(b[i])]

Whitespace == {" ", "\n"}

\* first ... .* ... second on one line ('.' does not match a newline)
MatchDotStar(b, first, second) ==
    \E i, j \in 1..Len(b) :
        /\ i < j
        /\ b[i] = first
        /\ b[j] = second
        /\ \A k \in (i + 1)..(j - 1) : b[k] # "\n"

\* drop\s+table
MatchDropTable(b) ==
    \E i, j \in 1..Len(b) :
        /\ i + 1 < j
        /\ b[i] = "drop"
        /\ b[j] = "table"
        /\ \A k \in (i + 1)..(j - 1) : b[k] \in Whitespace

MatchesBlockedPattern(b) ==
    \/ \E i \in 1..Len(b) : b[i] \in {"../", "..\\"}
    \/ MatchDotStar(b, "<script", ">")
    \/ MatchDotStar(b, "union", "select")
    \/ MatchDropTable(b)
    \/ \E i \in 1..Len(b) : b[i] = "exec("

is_safe_request(request_data) == ~MatchesBlockedPattern(LowerSeq(request_data))

\* a fragment that stands for a run of harmless filler bytes
Filler == "<filler>"

\* the length of a fragment in bytes
FragmentSize(f) ==
    CASE f = Filler -> max_request_size - 2
      [] f \in {" ", "\n", ">"} -> 1
      [] f = "{}" -> 2
      [] f \in {"../", "..\\"} -> 3
      [] f = "drop" -> 4
      [] f \in {"exec(", "table", "UNION", "union"} -> 5
      [] f = "select" -> 6
      [] f \in {"<script", "<SCRIPT"} -> 7
      [] f = "etc/passwd" -> 10
      [] OTHER -> 1

\* len(await request.body())
RECURSIVE BodySize(_)
BodySize(b) == IF Len(b) = 0 THEN 0 ELSE FragmentSize(Head(b)) + BodySize(Tail(b))

\* ------------------------------------------------------------------------
\* log_security_event
\* ------------------------------------------------------------------------
\* log_security_event that rates every event HIGH
log_security_event_all_high(event_type, client_ip) ==
    [type |-> event_type, client_ip |-> client_ip, severity |-> "HIGH"]

log_security_event(event_type, client_ip) ==
    [type |-> event_type,
     client_ip |-> client_ip,
     severity |-> IF event_type \in {"MALICIOUS_REQUEST", "IP_BLOCKED"}
                  THEN "HIGH" ELSE "MEDIUM"]

\* ------------------------------------------------------------------------
\* check_rate_limit(client_ip) at time t on the two dicts; returns the
\* verdict, the dicts as the call leaves them and the events it logged
\* ------------------------------------------------------------------------
\* check_rate_limit without the punitive block: only the window counts
check_rate_limit_window_only(client_ip, t, storage, blocked) ==
    LET window_start == t - rate_limit_window
        kept == IF client_ip \in DOMAIN storage
                THEN SelectSeq(storage[client_ip], LAMBDA ts : ts > window_start)
                ELSE <<>>
    IN  IF Len(kept) >= rate_limit_requests
        THEN [ok |-> FALSE,
              storage |-> DictSet(storage, client_ip, kept),
              blocked |-> blocked,
              events |-> <<log_security_event("RATE_LIMIT_EXCEEDED", client_ip)>>]
        ELSE [ok |-> TRUE,
              storage |-> DictSet(storage, client_ip, Append(kept, t)),
              blocked |-> blocked,
              events |-> <<>>]

\* check_rate_limit that restarts the block on every request it rejects
check_rate_limit_extending(client_ip, t, storage, blocked) ==
    LET window_start == t - rate_limit_window
        still_blocked == client_ip \in DOMAIN blocked /\ t < blocked[client_ip]
        blocked1 == IF client_ip \in DOMAIN blocked
                    THEN DictDel(blocked, client_ip) ELSE blocked
        kept == IF client_ip \in DOMAIN storage
                THEN SelectSeq(storage[client_ip], LAMBDA ts : ts > window_start)
                ELSE <<>>
    IN  IF still_blocked
        THEN [ok |-> FALSE, storage |-> storage,
              blocked |-> DictSet(blocked, client_ip, t + BlockSeconds),
              events |-> <<>>]
        ELSE IF Len(kept) >= rate_limit_requests
        THEN [ok |-> FALSE,
              storage |-> DictSet(storage, client_ip, kept),
              blocked |-> DictSet(blocked1, client_ip, t + BlockSeconds),
              events |-> <<log_security_event("RATE_LIMIT_EXCEEDED", client_ip)>>]
        ELSE [ok |-> TRUE,
              storage |-> DictSet(storage, client_ip, Append(kept, t)),
              blocked |-> blocked1,
              events |-> <<>>]

\* check_rate_limit that counts the timestamps of the window but keeps them all
check_rate_limit_keeping(client_ip, t, storage, blocked) ==
    LET window_start == t - rate_limit_window
        still_blocked == client_ip \in DOMAIN blocked /\ t < blocked[client_ip]
        blocked1 == IF client_ip \in DOMAIN blocked
                    THEN DictDel(blocked, client_ip) ELSE blocked
        old == IF client_ip \in DOMAIN storage THEN storage[client_ip] ELSE <<>>
        kept == SelectSeq(old, LAMBDA ts : ts > window_start)
    IN  IF still_blocked
        THEN [ok |-> FALSE, storage |-> storage, blocked |-> blocked,
              events |-> <<>>]
        ELSE IF Len(kept) >= rate_limit_requests
        THEN [ok |-> FALSE,
              storage |-> DictSet(storage, client_ip, old),
              blocked |-> DictSet(blocked1, client_ip, t + BlockSeconds),
              events |-> <<log_security_event("RATE_LIMIT_EXCEEDED", client_ip)>>]
        ELSE [ok |-> TRUE,
              storage |-> DictSet(storage, client_ip, Append(old, t)),
              blocked |-> blocked1,
              events |-> <<>>]

\* check_rate_limit that counts every stored timestamp, old ones included
check_rate_limit_unpruned(client_ip, t, storage, blocked) ==
    LET still_blocked == client_ip \in DOMAIN blocked /\ t < blocked[client_ip]
        blocked1 == IF client_ip \in DOMAIN blocked
                    THEN DictDel(blocked, client_ip) ELSE blocked
        kept == IF client_ip \in DOMAIN storage THEN storage[client_ip] ELSE <<>>
    IN  IF still_blocked
        THEN [ok |-> FALSE, storage |-> storage, blocked |-> blocked,
              events |-> <<>>]
        ELSE IF Len(kept) >= rate_limit_requests
        THEN [ok |-> FALSE,
              storage |-> DictSet(storage, client_ip, kept),
              blocked |-> DictSet(blocked1, client_ip, t + BlockSeconds),
              events |-> <<log_security_event("RATE_LIMIT_EXCEEDED", client_ip)>>]
        ELSE [ok |-> TRUE,
              storage |-> DictSet(storage, client_ip, Append(kept, t)),
              blocked |-> blocked1,
              events |-> <<>>]

\* check_rate_limit that leaves the append to a later stage of the pipeline
check_rate_limit_deferred(client_ip, t, storage, blocked) ==
    LET window_start == t - rate_limit_window
        still_blocked == client_ip \in DOMAIN blocked /\ t < blocked[client_ip]
        blocked1 == IF client_ip \in DOMAIN blocked
                    THEN DictDel(blocked, client_ip) ELSE blocked
        kept == IF client_ip \in DOMAIN storage
                THEN SelectSeq(storage[client_ip], LAMBDA ts : ts > window_start)
                ELSE <<>>
    IN  IF still_blocked
        THEN [ok |-> FALSE, storage |-> storage, blocked |-> blocked,
              events |-> <<>>]
        ELSE IF Len(kept) >= rate_limit_requests
        THEN [ok |-> FALSE,
              storage |-> DictSet(storage, client_ip, kept),
              blocked |-> DictSet(blocked1, client_ip, t + BlockSeconds),
              events |-> <<log_security_event("RATE_LIMIT_EXCEEDED", client_ip)>>]
        ELSE [ok |-> TRUE,
              storage |-> DictSet(storage, client_ip, kept),
              blocked |-> blocked1,
              events |-> <<>>]

\* check_rate_limit working on a read of the entry taken before the latest
\* append of a request running at the same time
check_rate_limit_stale_read(client_ip, t, storage, blocked) ==
    LET window_start == t - rate_limit_window
        still_blocked == client_ip \in DOMAIN blocked /\ t < blocked[client_ip]
        blocked1 == IF client_ip \in DOMAIN blocked
                    THEN DictDel(blocked, client_ip) ELSE blocked
        read == IF client_ip \in DOMAIN storage /\ Len(storage[client_ip]) > 0
                THEN SubSeq(storage[client_ip], 1, Len(storage[client_ip]) - 1)
                ELSE <<>>
        kept == SelectSeq(read, LAMBDA ts : ts > window_start)
    IN  IF still_blocked
        THEN [ok |-> FALSE, storage |-> storage, blocked |-> blocked,
              events |-> <<>>]
        ELSE IF Len(kept) >= rate_limit_requests
        THEN [ok |-> FALSE,
              storage |-> DictSet(storage, client_ip, kept),
              blocked |-> DictSet(blocked1, client_ip, t + BlockSeconds),
              events |-> <<log_security_event("RATE_LIMIT_EXCEEDED", client_ip)>>]
        ELSE [ok |-> TRUE,
              storage |-> DictSet(storage, client_ip, Append(kept, t)),
              blocked |-> blocked1,
              events |-> <<>>]

check_rate_limit(client_ip, t, storage, blocked) ==
    LET window_start == t - rate_limit_window
        still_blocked == client_ip \in DOMAIN blocked /\ t < blocked[client_ip]
        \* del blocked_ips_cache[client_ip] once the block has run out
        blocked1 == IF client_ip \in DOMAIN blocked
                    THEN DictDel(blocked, client_ip) ELSE blocked
        \* clean old entries
        kept == IF client_ip \in DOMAIN storage
                THEN SelectSeq(storage[client_ip], LAMBDA ts : ts > window_start)
                ELSE <<>>
    IN  IF still_blocked
        THEN [ok |-> FALSE, storage |-> storage, blocked |-> blocked,
              events |-> <<>>]
        ELSE IF Len(kept) >= rate_limit_requests
        THEN [ok |-> FALSE,
              storage |-> DictSet(storage, client_ip, kept),
              blocked |-> DictSet(blocked1, client_ip, t + BlockSeconds),
              events |-> <<log_security_event("RATE_LIMIT_EXCEEDED", client_ip)>>]
        ELSE [ok |-> TRUE,
              storage |-> DictSet(storage, client_ip, Append(kept, t)),
              blocked |-> blocked1,
              events |-> <<>>]

\* ------------------------------------------------------------------------
\* Inputs of security_middleware
\* ------------------------------------------------------------------------
Clients == {"127.0.0.1", "8.8.8.8", "not-an-ip"}

\* an exempt list that covers the documentation routes only
ExemptPaths_docs_only == {"/docs", "/redoc", "/openapi.json"}

ExemptPaths == {"/health", "/", "/docs", "/redoc", "/openapi.json"}

Paths == {"/health", "/devices/all"}

\* the other routes the gateway serves without checks
DocPaths == {"/", "/docs", "/redoc", "/openapi.json"}

MutatingMethods == {"POST", "PUT", "PATCH"}

NoHeader == -1

\* The request shapes the model sends: method, body, declared Content-Length
\* and the status the route handler would answer with
Shape(m, b, cl, hs) == [method |-> m, body |-> b, content_length |-> cl, handler_status |-> hs]

Shapes ==
    {Shape("GET", <<>>, NoHeader, 200),
     Shape("GET", <<>>, NoHeader, 500),
     Shape("DELETE", <<"exec(">>, NoHeader, 200),
     Shape("POST", <<"{}">>, max_request_size, 200),
     Shape("POST", <<"{}">>, max_request_size + 1, 200),
     Shape("POST", <<"../", "../", "etc/passwd">>, NoHeader, 200),
     Shape("PUT", <<"<script", ">">>, NoHeader, 200),
     Shape("PATCH", <<"UNION", " ", "select">>, NoHeader, 200),
     Shape("POST", <<"drop", " ", "table">>, NoHeader, 200),
     Shape("POST", <<"drop", "table">>, NoHeader, 200),
     Shape("POST", <<"exec(">>, NoHeader, 200),
     \* a body of exactly the ceiling, and one of one byte more, declared in
     \* Content-Length or sent as a chunked upload (no Content-Length)
     Shape("POST", <<Filler, "{}">>, max_request_size, 200),
     Shape("POST", <<Filler, "{}", " ">>, max_request_size + 1, 200),
     Shape("POST", <<Filler, "{}", " ">>, NoHeader, 200)}

\* the shapes sent to the documentation routes
DocShapes ==
    {Shape("POST", <<"{}">>, max_request_size + 1, 200),
     Shape("POST", <<"exec(">>, NoHeader, 200)}

\* the requests the model sends: path and shape
Probes ==
    {<<p, sh>> : p \in Paths, sh \in Shapes} \cup {<<p, sh>> : p \in DocPaths, sh \in DocShapes}

\* the plain requests used where only the rate limiter is of interest
PlainShapes == {Shape("GET", <<>>, NoHeader, 200)}

NoRequest ==
    [client |-> "", path |-> "", method |-> "", body |-> <<>>,
     content_length |-> NoHeader, step |-> "none", status |-> 0,
     called_next |-> FALSE, body_read |-> FALSE, events |-> <<>>,
     headers |-> {}, time |-> 0]

\* ghost bookkeeping of the rate limiter's verdicts, per client
RateSteps == {"rate", "size", "handler"}

KeepLast(s, n) == IF Len(s) <= n THEN s ELSE SubSeq(s, Len(s) - n + 1, Len(s))

\* ------------------------------------------------------------------------
\* security_middleware(request, call_next)
\* ------------------------------------------------------------------------
security_middleware(client_ip, path, method, body, content_length, handler_status) ==
    LET base == [client |-> client_ip, path |-> path, method |-> method,
                 body |-> body, content_length |-> content_length,
                 step |-> "none", status |-> 0, called_next |-> FALSE,
                 body_read |-> FALSE, events |-> <<>>, headers |-> {},
                 time |-> now]
        rl == check_rate_limit(client_ip, now, rate_limit_storage, blocked_ips_cache)
        too_large == content_length # NoHeader /\ content_length > max_request_size
        scans == method \in MutatingMethods
        \* the HTTPException(400) is raised inside the try block whose
        \* "except Exception: pass" catches it
        flagged == scans /\ Len(body) > 0 /\ ~is_safe_request(body)
    IN  IF path \in ExemptPaths
        THEN /\ last' = [base EXCEPT !.step = "exempt", !.status = handler_status,
                                     !.called_next = TRUE,
                                     !.headers = security_headers]
             /\ UNCHANGED <<rate_limit_storage, blocked_ips_cache,
                            accepted_log, trigger_time, prev_outcome>>
        ELSE IF Len(allowed_ips) > 0 /\ ~is_ip_allowed(client_ip, allowed_ips)
        THEN /\ last' = [base EXCEPT !.step = "ip", !.status = 403,
                            !.events = <<log_security_event("IP_BLOCKED", client_ip)>>]
             /\ UNCHANGED <<rate_limit_storage, blocked_ips_cache,
                            accepted_log, trigger_time, prev_outcome>>
        ELSE
             /\ rate_limit_storage' = rl.storage
             /\ blocked_ips_cache' = rl.blocked
             /\ accepted_log' =
                    IF rl.ok
                    THEN DictSet(accepted_log, client_ip,
                                 KeepLast(Append(IF client_ip \in DOMAIN accepted_log
                                                 THEN accepted_log[client_ip] ELSE <<>>,
                                                 now),
                                          rate_limit_requests))
                    ELSE accepted_log
             /\ trigger_time' =
                    IF ~rl.ok /\ (client_ip \notin DOMAIN prev_outcome
                                  \/ prev_outcome[client_ip] = "accepted")
                    THEN DictSet(trigger_time, client_ip, now)
                    ELSE trigger_time
             /\ prev_outcome' = DictSet(prev_outcome, client_ip,
                                        IF rl.ok THEN "accepted" ELSE "rejected")
             /\ IF ~rl.ok
                THEN last' = [base EXCEPT !.step = "rate", !.status = 429,
                                          !.events = rl.events]
                ELSE IF too_large
                THEN last' = [base EXCEPT !.step = "size", !.status = 413,
                                 !.events = <<log_security_event("REQUEST_TOO_LARGE", client_ip)>>]
                ELSE last' = [base EXCEPT
                                 !.step = "handler",
                                 !.status = handler_status,
                                 !.called_next = TRUE,
                                 !.body_read = scans,
                                 !.events = IF flagged
                                            THEN <<log_security_event("MALICIOUS_REQUEST", client_ip)>>
                                            ELSE <<>>,
                                 !.headers = security_headers \cup {"X-Process-Time"}]

\* ------------------------------------------------------------------------
\* The gate as a state machine
\* ------------------------------------------------------------------------
Steps == {100}

InitGate(customs, limits, windows) ==
    /\ env_allowed_ips \in customs
    /\ \E ngrok \in NgrokEnabledEnv :
            allowed_ips = GetAllowedIps(env_allowed_ips, ngrok)
    /\ rate_limit_requests \in limits
    /\ rate_limit_window \in windows
    /\ now = 0
    /\ rate_limit_storage = EmptyDict
    /\ blocked_ips_cache = EmptyDict
    /\ last = NoRequest
    /\ accepted_log = EmptyDict
    /\ trigger_time = EmptyDict
    /\ prev_outcome = EmptyDict

\* the wall clock moves on between requests
Advance ==
    /\ \E d \in Steps : now + d <= MaxTime /\ now' = now + d
    /\ UNCHANGED <<env_allowed_ips, allowed_ips, rate_limit_requests, rate_limit_window,
                   rate_limit_storage, blocked_ips_cache, last,
                   accepted_log, trigger_time, prev_outcome>>
    /\ UNCHANGED <<tokenVars, fanVars, concVars>>

Request ==
    /\ \E c \in Clients, pr \in Probes :
            security_middleware(c, pr[1], pr[2].method, pr[2].body, pr[2].content_length,
                                pr[2].handler_status)
    /\ UNCHANGED <<env_allowed_ips, allowed_ips, rate_limit_requests, rate_limit_window, now>>
    /\ UNCHANGED <<tokenVars, fanVars, concVars>>

PlainRequest ==
    /\ \E c \in Clients, p \in Paths, sh \in PlainShapes :
            security_middleware(c, p, sh.method, sh.body, sh.content_length,
                                sh.handler_status)
    /\ UNCHANGED <<env_allowed_ips, allowed_ips, rate_limit_requests, rate_limit_window, now>>
    /\ UNCHANGED <<tokenVars, fanVars, concVars>>

\* ------------------------------------------------------------------------
\* Requests handled at the same time: each one is a coroutine of
\* security_middleware that gives up the event loop only at its awaits
\* (request.body() and call_next)
\* ------------------------------------------------------------------------
Slots == 1..MaxInflight

NoCoroutine == [pc |-> "idle", client |-> "", path |-> "", shape |-> Shape("", <<>>, NoHeader, 0)]

\* the client whose requests overlap, and the requests it sends
SameClient == "8.8.8.8"

ConcShapes == {Shape("GET", <<>>, NoHeader, 200), Shape("POST", <<"{}">>, NoHeader, 200)}

InitConcVars == inflight = [r \in Slots |-> NoCoroutine]

\* the server accepts a request and schedules its coroutine
Arrive(r) ==
    /\ inflight[r].pc = "idle"
    /\ \A q \in Slots : q < r => inflight[q].pc # "idle"
    /\ \E sh \in ConcShapes :
          inflight' = [inflight EXCEPT ![r] = [pc |-> "start", client |-> SameClient,
                                               path |-> "/devices/all", shape |-> sh]]
    /\ UNCHANGED <<gateVars, tokenVars, fanVars>>

\* the coroutine runs from its start to its first await: get_client_ip, the
\* exempt test, the IP check, check_rate_limit and the size check, none of
\* which awaits
RunChecks(r) ==
    /\ inflight[r].pc = "start"
    /\ security_middleware(inflight[r].client, inflight[r].path,
                           inflight[r].shape.method, inflight[r].shape.body,
                           inflight[r].shape.content_length,
                           inflight[r].shape.handler_status)
    /\ inflight' = [inflight EXCEPT ![r] =
                        IF ~last'.called_next THEN NoCoroutine
                        ELSE IF last'.body_read THEN [@ EXCEPT !.pc = "body"]
                        ELSE [@ EXCEPT !.pc = "handler"]]
    /\ UNCHANGED <<env_allowed_ips, allowed_ips, rate_limit_requests, rate_limit_window, now>>
    /\ UNCHANGED <<tokenVars, fanVars>>

\* await request.body() returns
BodyRead(r) ==
    /\ inflight[r].pc = "body"
    /\ inflight' = [inflight EXCEPT ![r].pc = "handler"]
    /\ UNCHANGED <<gateVars, tokenVars, fanVars>>

\* await call_next(request) returns and the response goes out
HandlerReturns(r) ==
    /\ inflight[r].pc = "handler"
    /\ inflight' = [inflight EXCEPT ![r] = NoCoroutine]
    /\ UNCHANGED <<gateVars, tokenVars, fanVars>>

\* ------------------------------------------------------------------------
\* Token service: create_jwt_token / verify_jwt_token
\* ------------------------------------------------------------------------
None == -1

SecondsPerHour == 3600

\* timedelta(hours=h) in ticks
HoursToTicks(h) == h * SecondsPerHour * TicksPerSecond

\* jwt.encode stores a datetime claim as whole seconds (timegm(utctimetuple()))
ToNumericDate(ticks) == ticks \div TicksPerSecond

\* the claims a caller hands to create_jwt_token; nbf in seconds
ClaimSets ==
    {[exp |-> None, iat |-> None, iss |-> "", nbf |-> None, aud |-> "", private |-> "gateway"],
     [exp |-> 0, iat |-> 0, iss |-> "someone", nbf |-> None, aud |-> "", private |-> "place"],
     [exp |-> None, iat |-> None, iss |-> "", nbf |-> 1800, aud |-> "", private |-> "gateway"],
     [exp |-> None, iat |-> None, iss |-> "", nbf |-> None, aud |-> "frontend", private |-> "gateway"]}

NoPayload == [exp |-> None, iat |-> None, iss |-> "", nbf |-> None, aud |-> "", private |-> ""]

\* create_jwt_token with timedelta(minutes=...) in place of timedelta(hours=...)
create_jwt_token_minutes(payload, t) ==
    [kind |-> "jwt", text |-> "", sig |-> "jwt_secret",
     payload |-> [payload EXCEPT
                    !.exp = ToNumericDate(t + jwt_expire_hours * 60 * TicksPerSecond),
                    !.iat = ToNumericDate(t),
                    !.iss = "BiometricFlow-ZK"]]

\* create_jwt_token(payload) at time t: payload.update(exp, iat, iss); jwt.encode
create_jwt_token(payload, t) ==
    [kind |-> "jwt", text |-> "", sig |-> "jwt_secret",
     payload |-> [payload EXCEPT
                    !.exp = ToNumericDate(t + HoursToTicks(jwt_expire_hours)),
                    !.iat = ToNumericDate(t),
                    !.iss = "BiometricFlow-ZK"]]

\* jwt.decode(token, jwt_secret, algorithms=["HS256"]) at time t: the payload,
\* or the class of the exception it raises
jwt_decode(cred, t) ==
    LET p == cred.payload
        \* PyJWT compares whole seconds; a build either expires the token at
        \* exp or one second later
        expired == IF jwt_exp_inclusive
                   THEN p.exp * TicksPerSecond <= t
                   ELSE p.exp < t \div TicksPerSecond
    IN  IF cred.kind # "jwt" THEN [error |-> "DecodeError", payload |-> NoPayload]
        ELSE IF cred.sig # "jwt_secret"
        THEN [error |-> "InvalidSignatureError", payload |-> NoPayload]
        ELSE IF p.nbf # None /\ p.nbf * TicksPerSecond > t
        THEN [error |-> "ImmatureSignatureError", payload |-> NoPayload]
        ELSE IF expired
        THEN [error |-> "ExpiredSignatureError", payload |-> NoPayload]
        ELSE IF p.aud # ""
        THEN [error |-> "InvalidAudienceError", payload |-> NoPayload]
        ELSE [error |-> "", payload |-> p]

\* the subclasses of jwt.InvalidTokenError that jwt.decode raises
InvalidTokenErrors ==
    {"DecodeError", "InvalidSignatureError", "ImmatureSignatureError",
     "ExpiredSignatureError", "InvalidAudienceError"}

\* verify_jwt_token that lets the expiry error through
verify_jwt_token_reraising(cred, t) ==
    LET d == jwt_decode(cred, t) IN
    IF d.error = "" THEN [raised |-> FALSE, result |-> "payload", logged |-> ""]
    ELSE IF d.error = "ExpiredSignatureError"
    THEN [raised |-> TRUE, result |-> "None", logged |-> ""]
    ELSE [raised |-> FALSE, result |-> "None", logged |-> "Invalid JWT token"]

\* verify_jwt_token(token)
verify_jwt_token(cred, t) ==
    LET d == jwt_decode(cred, t) IN
    IF d.error = "" THEN [raised |-> FALSE, result |-> "payload", logged |-> ""]
    ELSE IF d.error = "ExpiredSignatureError"
    THEN [raised |-> FALSE, result |-> "None", logged |-> "JWT token expired"]
    ELSE IF d.error \in InvalidTokenErrors
    THEN [raised |-> FALSE, result |-> "None", logged |-> "Invalid JWT token"]
    ELSE [raised |-> TRUE, result |-> "None", logged |-> ""]

\* ------------------------------------------------------------------------
\* Credential validator: validate_api_key
\* ------------------------------------------------------------------------
api_keys == {"main-api-key-0001", "backend-api-key-01"}

NoCredentials == [kind |-> "none", text |-> "", sig |-> "", payload |-> NoPayload]

Opaque(text) == [kind |-> "opaque", text |-> text, sig |-> "", payload |-> NoPayload]

\* token in security_config.api_keys
IsApiKey(cred) == cred.kind = "opaque" /\ cred.text \in api_keys

Unauthorized(detail, events, trace, v) ==
    [authorized |-> FALSE, status |-> 401, challenge |-> "Bearer",
     detail |-> detail, events |-> events, trace |-> trace, verify |-> v]

Authorized(trace, v) ==
    [authorized |-> TRUE, status |-> 200, challenge |-> "",
     detail |-> "", events |-> <<>>, trace |-> trace, verify |-> v]

NotVerified == [raised |-> FALSE, result |-> "", logged |-> ""]

\* validate_api_key that lets every request through in development mode
validate_api_key_dev_bypass(credentials, t) ==
    LET v == verify_jwt_token(credentials, t) IN
    IF allow_no_auth
    THEN Authorized(<<"no_credentials", "development">>, NotVerified)
    ELSE IF credentials.kind = "none"
    THEN Unauthorized("Authentication required - API key or JWT token needed",
                      <<>>, <<"no_credentials">>, NotVerified)
    ELSE IF v.result = "payload"
    THEN Authorized(<<"jwt">>, v)
    ELSE IF IsApiKey(credentials)
    THEN Authorized(<<"jwt", "api_key">>, v)
    ELSE Unauthorized("Invalid authentication credentials",
                      <<log_security_event("INVALID_AUTH", "unknown")>>,
                      <<"jwt", "api_key", "invalid">>, v)

\* validate_api_key(credentials) at time t
validate_api_key(credentials, t) ==
    LET v == verify_jwt_token(credentials, t) IN
    IF credentials.kind = "none"
    THEN IF allow_no_auth
         THEN Authorized(<<"no_credentials", "development">>, NotVerified)
         ELSE Unauthorized("Authentication required - API key or JWT token needed",
                           <<>>, <<"no_credentials">>, NotVerified)
    ELSE IF v.raised
    THEN [authorized |-> FALSE, status |-> 500, challenge |-> "", detail |-> "",
          events |-> <<>>, trace |-> <<"jwt">>, verify |-> v]
    ELSE IF v.result = "payload"
    THEN Authorized(<<"jwt">>, v)
    ELSE IF IsApiKey(credentials)
    THEN Authorized(<<"jwt", "api_key">>, v)
    ELSE Unauthorized("Invalid authentication credentials",
                      <<log_security_event("INVALID_AUTH", "unknown")>>,
                      <<"jwt", "api_key", "invalid">>, v)

\* ------------------------------------------------------------------------
\* The token service and the validator as a state machine
\* ------------------------------------------------------------------------
JwtExpireHoursEnv == {1, 24}

NoToken == [cred |-> NoCredentials, issued_at |-> None, claims |-> NoPayload]

NoAuth == [cred |-> NoCredentials, at |-> None, res |-> Authorized(<<>>, NotVerified)]

InvalidKinds == {"expired", "bad_signature", "malformed"}

\* the kind of invalid credential cred is at time t ("" when it is none of them)
InvalidKind(cred, t) ==
    IF cred.kind = "opaque" /\ ~IsApiKey(cred) THEN "malformed"
    ELSE IF cred.kind = "jwt" /\ cred.sig # "jwt_secret" THEN "bad_signature"
    ELSE IF cred.kind = "jwt" /\ jwt_decode(cred, t).error = "ExpiredSignatureError"
    THEN "expired"
    ELSE ""

\* what a caller sees of validate_api_key (the logger line of
\* verify_jwt_token is not part of it)
Response(r) == [r EXCEPT !.verify.logged = ""]

InitTokenVars(hours, overrides) ==
    /\ jwt_expire_hours \in hours
    /\ jwt_exp_inclusive \in BOOLEAN
    /\ allow_no_auth \in overrides
    /\ clock = 0
    /\ token = NoToken
    /\ auth = NoAuth
    /\ seen = [k \in InvalidKinds |-> NoAuth.res]

\* time passes before the token is issued
Tick ==
    /\ token = NoToken
    /\ clock < MaxStartTick
    /\ clock' = clock + 1
    /\ UNCHANGED <<jwt_expire_hours, jwt_exp_inclusive, allow_no_auth, token, auth, seen>>
    /\ UNCHANGED <<gateVars, fanVars, concVars>>

CreateToken ==
    /\ token = NoToken
    /\ \E claims \in ClaimSets :
            token' = [cred |-> create_jwt_token(claims, clock),
                      issued_at |-> clock, claims |-> claims]
    /\ UNCHANGED <<jwt_expire_hours, jwt_exp_inclusive, allow_no_auth, clock, auth, seen>>
    /\ UNCHANGED <<gateVars, fanVars, concVars>>

\* instants shortly after the issue and around the end of the time-to-live
Instants ==
    {token.issued_at + 1} \cup
    {token.issued_at + HoursToTicks(jwt_expire_hours) + d :
        d \in (0 - TicksPerSecond - 1)..(TicksPerSecond + 1)}

AdvanceClock ==
    /\ token # NoToken
    /\ \E t \in Instants : t > clock /\ clock' = t
    /\ UNCHANGED <<jwt_expire_hours, jwt_exp_inclusive, allow_no_auth, token, auth, seen>>
    /\ UNCHANGED <<gateVars, fanVars, concVars>>

\* the credentials a request may carry
Credentials ==
    {NoCredentials, Opaque("not-a-token"), Opaque("main-api-key-0001")}
    \cup (IF token = NoToken THEN {}
          ELSE {token.cred, [token.cred EXCEPT !.sig = "other_secret"]})

Authenticate ==
    /\ \E cred \in Credentials :
         LET res == validate_api_key(cred, clock)
             k == InvalidKind(cred, clock)
         IN  /\ auth' = [cred |-> cred, at |-> clock, res |-> res]
             /\ seen' = IF k = "" THEN seen ELSE [seen EXCEPT ![k] = res]
    /\ UNCHANGED <<jwt_expire_hours, jwt_exp_inclusive, allow_no_auth, clock, token>>
    /\ UNCHANGED <<gateVars, fanVars, concVars>>

\* ------------------------------------------------------------------------
\* Aggregation gateway: registry, call_backend, call_all_backends
\* ------------------------------------------------------------------------
\* the registry of the test deployment; timeouts in units of 15 seconds
AllBackends ==
    <<[name |-> "Place_1_BackOffice", location |-> "Head Office", timeout |-> 1],
      [name |-> "Place_2_ShowRoom", location |-> "Head Office", timeout |-> 2],
      [name |-> "Place_3_Warehouse", location |-> "Depot", timeout |-> 1]>>

Registries == {SubSeq(AllBackends, 1, k) : k \in 0..Len(AllBackends)}

Targets == 1..Len(backends)

\* names and ids are character sequences; backend_name and place_location are
\* what the upstream itself put in the entity ("": the key is absent)
Entities ==
    {[name |-> <<"a">>, userid |-> <<"1">>, backend_name |-> "", place_location |-> ""],
     [name |-> <<"a">>, userid |-> <<"2">>,
      backend_name |-> "Place_3_Warehouse", place_location |-> "Depot"]}

\* what a failing backend may still put in its body
Poison == [name |-> <<"z">>, userid |-> <<"9">>, backend_name |-> "", place_location |-> ""]

RECURSIVE SeqsUpTo(_, _)
SeqsUpTo(S, n) ==
    IF n = 0 THEN {<<>>}
    ELSE LET shorter == SeqsUpTo(S, n - 1)
         IN  shorter \cup {Append(q, x) : q \in {r \in shorter : Len(r) = n - 1}, x \in S}

\* the answers of a backend: HTTP status (0: the connection fails) and JSON
\* body; health is the body's "status" key ("": the key is absent)
\* schema: "object" (the body is an object whose devices / data / users field
\* is a list of objects), "array" (the body is not an object) or "bad_items"
\* (the field is not a list of objects)
Answer(st, ok, items) ==
    [status |-> st, success |-> ok, items |-> items, health |-> "", schema |-> "object"]

Answers ==
    {Answer(200, TRUE, items) : items \in SeqsUpTo(Entities, MaxItems)}
    \cup {Answer(200, FALSE, <<>>)}
    \cup {Answer(st, TRUE, <<Poison>>) : st \in {401, 403, 500, 404}}
    \cup {Answer(0, FALSE, <<>>)}
    \cup {[Answer(200, TRUE, <<>>) EXCEPT !.schema = sc] : sc \in {"array", "bad_items"}}

\* the answers of a backend to /health
HealthAnswers ==
    {[Answer(200, FALSE, <<>>) EXCEPT !.health = h] : h \in {"healthy", "degraded", ""}}
    \cup {[Answer(st, FALSE, <<>>) EXCEPT !.health = "healthy"] : st \in {500, 404}}
    \cup {Answer(0, FALSE, <<>>)}

NoAnswer == Answer(-1, FALSE, <<>>)

FanOutRoutes == {"/devices/all", "/attendance/all", "/users/all"}

\* the routes that merge the results of call_all_backends
MergeRoutes == FanOutRoutes \cup {"/summary/all"}

\* the routes that call one named backend
DirectRoutes ==
    {"/place/{place_name}/devices", "/place/{place_name}/attendance",
     "/place/{place_name}/users", "/place/{place_name}/summary"}

\* the place names a request may carry
PlaceNames == {AllBackends[i].name : i \in 1..Len(AllBackends)} \cup {"Place_9_Nowhere"}

Routes == MergeRoutes \cup {"/", "/health"}

\* users whose name or userid contains the separator of the dedup key
KeyUsers ==
    {[name |-> n, userid |-> i, backend_name |-> "", place_location |-> ""] :
        n \in {<<"a">>, <<"a", "-", "b">>}, i \in {<<"c">>, <<"b", "-", "c">>}}

\* the /users/all answers listing up to MaxUsers of them
UserListings == {Answer(200, TRUE, q) : q \in SeqsUpTo(KeyUsers, MaxUsers)}

KeyRegistries == {SubSeq(AllBackends, 1, k) : k \in 1..2}

\* what a backend may answer on the route being served
\* (a summary has no list of entities, so no "bad_items" answer)
AnswersTo(route) ==
    IF route = "/health" THEN HealthAnswers
    ELSE IF route \in {"/summary/all", "/place/{place_name}/summary"}
    THEN {a \in Answers : a.schema # "bad_items"}
    ELSE Answers

\* the routes declared with Depends(validate_api_key)
AuthenticatedRoutes == {"/"}

\* the dict call_backend returns
\* is_dict: the value is a dict; items_ok: its devices / data / users field is
\* a list of dicts
ErrorResult(b, code) ==
    [success |-> FALSE, has_items |-> FALSE, items |-> <<>>, error_code |-> code,
     status |-> "", backend_name |-> b.name, place_location |-> b.location,
     is_dict |-> TRUE, items_ok |-> TRUE]

NoResult ==
    [success |-> FALSE, has_items |-> FALSE, items |-> <<>>, error_code |-> "",
     status |-> "", backend_name |-> "", place_location |-> "",
     is_dict |-> TRUE, items_ok |-> TRUE]

\* a 200 body that is not a dict is returned as it is, without metadata
NotADict == [NoResult EXCEPT !.is_dict = FALSE]

\* call_backend that takes the body of any answer below 500 as data
call_backend_any_status(b, answer) ==
    IF answer.status > 0 /\ answer.status < 500
    THEN IF answer.schema = "array" THEN NotADict
         ELSE [success |-> answer.success, has_items |-> answer.success,
               items |-> answer.items, error_code |-> "", status |-> answer.health,
               backend_name |-> b.name, place_location |-> b.location,
               is_dict |-> TRUE, items_ok |-> answer.schema # "bad_items"]
    ELSE IF answer.status >= 500 THEN ErrorResult(b, "SERVER_ERROR")
    ELSE ErrorResult(b, "CONNECTION_ERROR")

\* call_backend: classification of the answer of backend b
call_backend(b, answer) ==
    IF answer.status = 200
    THEN IF answer.schema = "array" THEN NotADict
         ELSE [success |-> answer.success, has_items |-> answer.success,
               items |-> answer.items, error_code |-> "", status |-> answer.health,
               backend_name |-> b.name, place_location |-> b.location,
               is_dict |-> TRUE, items_ok |-> answer.schema # "bad_items"]
    ELSE IF answer.status = 401 THEN ErrorResult(b, "AUTH_FAILED")
    ELSE IF answer.status = 403 THEN ErrorResult(b, "ACCESS_DENIED")
    ELSE IF answer.status >= 500 THEN ErrorResult(b, "SERVER_ERROR")
    ELSE IF answer.status > 0 THEN ErrorResult(b, "HTTP_ERROR")
    ELSE ErrorResult(b, "CONNECTION_ERROR")

\* ------------------------------------------------------------------------
\* The merge of get_all_devices_unified / get_all_attendance_unified /
\* get_all_users_unified
\* ------------------------------------------------------------------------
\* tagging that keeps the tags the upstream supplied
Tag_setdefault(item, result) ==
    [item EXCEPT !.backend_name = IF @ = "" THEN result.backend_name ELSE @,
                 !.place_location = IF @ = "" THEN result.place_location ELSE @]

\* device["backend_name"] = backend_name; device["place_location"] = place_location
Tag(item, result) ==
    [item EXCEPT !.backend_name = result.backend_name,
                 !.place_location = result.place_location]

\* f"{user.get('name', '')}-{user.get('userid', '')}"
user_key(user) == user.name \o <<"-">> \o user.userid

EmptyMerge == [items |-> <<>>, sources |-> <<>>, places |-> <<>>, keys |-> {}]

\* the inner loop with a later duplicate replacing the retained entry
RECURSIVE AddItems_last_wins(_, _, _, _, _)
AddItems_last_wins(acc, result, items, i, dedup) ==
    IF i > Len(items) THEN acc
    ELSE IF dedup /\ user_key(items[i]) \in acc.keys
    THEN AddItems_last_wins(
            [acc EXCEPT !.items = [j \in 1..Len(@) |->
                                     IF user_key(@[j]) = user_key(items[i])
                                     THEN Tag(items[i], result) ELSE @[j]]],
            result, items, i + 1, dedup)
    ELSE AddItems_last_wins([acc EXCEPT !.items = Append(@, Tag(items[i], result)),
                                        !.keys = @ \cup {user_key(items[i])}],
                            result, items, i + 1, dedup)

\* the inner loop over one result's entities; dedup is on for users only
RECURSIVE AddItems(_, _, _, _, _)
AddItems(acc, result, items, i, dedup) ==
    IF i > Len(items) THEN acc
    ELSE IF dedup /\ user_key(items[i]) \in acc.keys
    THEN AddItems(acc, result, items, i + 1, dedup)
    ELSE AddItems([acc EXCEPT !.items = Append(@, Tag(items[i], result)),
                              !.keys = @ \cup {user_key(items[i])}],
                  result, items, i + 1, dedup)

\* the same loop without the user_set test
RECURSIVE MergeResults_no_dedup(_, _, _, _)
MergeResults_no_dedup(acc, results, i, dedup) ==
    IF i > Len(results) THEN acc
    ELSE IF results[i].success /\ results[i].has_items
    THEN MergeResults_no_dedup(
            AddItems([acc EXCEPT
                        !.sources = Append(@, results[i].backend_name),
                        !.places = IF results[i].place_location \in SeqToSet(@)
                                   THEN @ ELSE Append(@, results[i].place_location)],
                     results[i], results[i].items, 1, FALSE),
            results, i + 1, dedup)
    ELSE MergeResults_no_dedup(acc, results, i + 1, dedup)

\* the outer loop over the results of call_all_backends
RECURSIVE MergeResults(_, _, _, _)
MergeResults(acc, results, i, dedup) ==
    IF i > Len(results) THEN acc
    ELSE IF results[i].success /\ results[i].has_items
    THEN MergeResults(
            AddItems([acc EXCEPT
                        !.sources = Append(@, results[i].backend_name),
                        !.places = IF results[i].place_location \in SeqToSet(@)
                                   THEN @ ELSE Append(@, results[i].place_location)],
                     results[i], results[i].items, 1, dedup),
            results, i + 1, dedup)
    ELSE MergeResults(acc, results, i + 1, dedup)

NoResponse ==
    [status |-> 0, success |-> FALSE, items |-> <<>>, total |-> 0,
     backend_sources |-> <<>>, places |-> <<>>, health |-> "", healthy_places |-> 0]

\* the body of a backend's summary answer is the summary itself
EmptySummary == [name |-> <<>>, userid |-> <<>>, backend_name |-> "", place_location |-> ""]

SummaryOf(result) == IF Len(result.items) > 0 THEN result.items[1] ELSE EmptySummary

\* the loop of get_all_summary_unified: one tagged copy per succeeding result
RECURSIVE MergeSummaries(_, _, _)
MergeSummaries(acc, results, i) ==
    IF i > Len(results) THEN acc
    ELSE IF results[i].success
    THEN MergeSummaries(
            [acc EXCEPT
                !.sources = Append(@, results[i].backend_name),
                !.places = IF results[i].place_location \in SeqToSet(@)
                           THEN @ ELSE Append(@, results[i].place_location),
                !.items = Append(@, Tag(SummaryOf(results[i]), results[i]))],
            results, i + 1)
    ELSE MergeSummaries(acc, results, i + 1)

\* the answer to a request whose handler raised (TypeError, AttributeError)
UnhandledError == [NoResponse EXCEPT !.status = 500]

\* the loop over a result's entities raises on a field that is not a list of
\* dicts
MergeRaises(route, results) ==
    /\ route # "/summary/all"
    /\ \E i \in 1..Len(results) :
          results[i].success /\ results[i].has_items /\ ~results[i].items_ok

\* the body with success reported only when some target contributed
UnifiedResponse_needs_source(route, results) ==
    LET m == IF route = "/summary/all"
             THEN MergeSummaries(EmptyMerge, results, 1)
             ELSE MergeResults(EmptyMerge, results, 1, route = "/users/all")
    IN  IF MergeRaises(route, results) THEN UnhandledError
        ELSE [status |-> 200, success |-> Len(m.sources) > 0, items |-> m.items,
              total |-> Len(m.items), backend_sources |-> m.sources,
              places |-> m.places, health |-> "", healthy_places |-> 0]

\* the body get_all_*_unified returns for the gathered results
UnifiedResponse(route, results) ==
    LET m == IF route = "/summary/all"
             THEN MergeSummaries(EmptyMerge, results, 1)
             ELSE MergeResults(EmptyMerge, results, 1, route = "/users/all")
    IN  IF MergeRaises(route, results) THEN UnhandledError
        ELSE [status |-> 200, success |-> TRUE, items |-> m.items,
              total |-> Len(m.items), backend_sources |-> m.sources,
              places |-> m.places, health |-> "", healthy_places |-> 0]

\* health_check with "every place healthy" as the policy
HealthResponse_all(results) ==
    LET healthy_backends == Cardinality({t \in DOMAIN results : results[t].status = "healthy"})
    IN  [NoResponse EXCEPT
            !.status = 200,
            !.health = IF healthy_backends = Len(results) THEN "healthy" ELSE "unhealthy",
            !.total = Len(results),
            !.healthy_places = healthy_backends]

\* the body health_check returns: total_places, healthy_places, status
HealthResponse(results) ==
    LET healthy_backends == Cardinality({t \in DOMAIN results : results[t].status = "healthy"})
    IN  [NoResponse EXCEPT
            !.status = 200,
            !.health = IF healthy_backends > 0 THEN "healthy" ELSE "unhealthy",
            !.total = Len(results),
            !.healthy_places = healthy_backends]

\* the tagging of get_place_devices / _attendance / _users / _summary; the
\* handler returns the dict of call_backend, whatever it is
DirectResponse(route, result) ==
    LET entities == IF route = "/place/{place_name}/summary"
                    THEN <<SummaryOf(result)>> ELSE result.items
    IN  IF ~result.is_dict THEN UnhandledError
        ELSE IF result.success /\ ~result.items_ok /\ route # "/place/{place_name}/summary"
        THEN UnhandledError
        ELSE [NoResponse EXCEPT
                !.status = 200,
                !.success = result.success,
                !.items = IF result.success
                          THEN [i \in 1..Len(entities) |-> Tag(entities[i], result)]
                          ELSE <<>>,
                !.total = IF result.success THEN Len(entities) ELSE 0]

\* ------------------------------------------------------------------------
\* The gateway as a state machine
\* ------------------------------------------------------------------------
NoReq == [route |-> "", cred |-> NoCredentials, place |-> ""]

\* seq: the position of the call in the order of completion (0: not settled)
NoCall == [state |-> "none", elapsed |-> 0, result |-> NoResult, seq |-> 0]

\* the position the next call to settle takes
NextSeq == 1 + Cardinality({t \in Targets : calls[t].state = "settled"})

InitFanVars(registries) ==
    /\ backends \in registries
    /\ req = NoReq
    /\ phase = "idle"
    /\ calls = [t \in Targets |-> NoCall]
    /\ upstream = [t \in Targets |-> NoAnswer]
    /\ response = NoResponse

RequestCredentials ==
    {NoCredentials, Opaque("not-a-token"), Opaque("main-api-key-0001")}

\* an inbound request reaches its route: the dependencies of the route run,
\* then the handler; a fan-out handler starts one call_backend task per
\* registered target (asyncio.gather)
StartRequest(route, cred) ==
    /\ phase \in {"idle", "done"}
    /\ req' = [route |-> route, cred |-> cred, place |-> ""]
    /\ upstream' = [t \in Targets |-> NoAnswer]
    /\ IF route \in AuthenticatedRoutes /\ ~validate_api_key(cred, clock).authorized
       THEN /\ phase' = "done"
            /\ calls' = [t \in Targets |-> NoCall]
            /\ response' = [NoResponse EXCEPT !.status = 401]
       ELSE IF route \in MergeRoutes
       THEN /\ phase' = "calling"
            /\ calls' = [t \in Targets |-> [NoCall EXCEPT !.state = "pending"]]
            /\ response' = NoResponse
       ELSE IF route = "/health"
       THEN \* health_check builds the coroutines and awaits them one by one
            /\ phase' = "calling"
            /\ calls' = [t \in Targets |->
                            [NoCall EXCEPT !.state = IF t = 1 THEN "pending" ELSE "queued"]]
            /\ response' = NoResponse
       ELSE /\ phase' = "done"
            /\ calls' = [t \in Targets |-> NoCall]
            /\ response' = [NoResponse EXCEPT !.status = 200, !.success = TRUE]
    /\ UNCHANGED backends
    /\ UNCHANGED <<gateVars, tokenVars, concVars>>

\* a route that names its backend: call_specific_place_backend, whose
\* call_backend raises the 404 before any I/O when the name is not registered
StartDirect_any_backend(route, name) ==
    /\ phase \in {"idle", "done"}
    /\ Len(backends) > 0
    /\ req' = [route |-> route, cred |-> NoCredentials, place |-> name]
    /\ upstream' = [t \in Targets |-> NoAnswer]
    /\ LET known == \E t \in Targets : backends[t].name = name
           target == IF known THEN CHOOSE t \in Targets : backends[t].name = name ELSE 1
       IN  /\ phase' = "calling"
           /\ calls' = [t \in Targets |->
                           [NoCall EXCEPT !.state = IF t = target THEN "pending" ELSE "none"]]
           /\ response' = NoResponse
    /\ UNCHANGED backends
    /\ UNCHANGED <<gateVars, tokenVars, concVars>>

StartDirect(route, name) ==
    /\ phase \in {"idle", "done"}
    /\ req' = [route |-> route, cred |-> NoCredentials, place |-> name]
    /\ upstream' = [t \in Targets |-> NoAnswer]
    /\ IF \E t \in Targets : backends[t].name = name
       THEN /\ phase' = "calling"
            /\ calls' = [t \in Targets |->
                            [NoCall EXCEPT !.state = IF backends[t].name = name
                                                    THEN "pending" ELSE "none"]]
            /\ response' = NoResponse
       ELSE /\ phase' = "done"
            /\ calls' = [t \in Targets |-> NoCall]
            /\ response' = [NoResponse EXCEPT !.status = 404]
    /\ UNCHANGED backends
    /\ UNCHANGED <<gateVars, tokenVars, concVars>>

\* health_check: the await of one call has returned, the loop awaits the next
AwaitNext ==
    /\ phase = "calling"
    /\ req.route = "/health"
    /\ \E t \in Targets :
          /\ calls[t].state = "settled"
          /\ t + 1 \in Targets
          /\ calls[t + 1].state = "queued"
          /\ calls' = [calls EXCEPT ![t + 1].state = "pending"]
    /\ UNCHANGED <<backends, req, phase, upstream, response>>
    /\ UNCHANGED <<gateVars, tokenVars, concVars>>

\* the backend answers, or the connection fails, before the call's deadline
Respond(t, answer) ==
    /\ phase = "calling"
    /\ calls[t].state = "pending"
    /\ calls' = [calls EXCEPT ![t].state = "settled",
                              ![t].elapsed = 0,
                              ![t].result = call_backend(backends[t], answer)]
    /\ upstream' = [upstream EXCEPT ![t] = answer]
    /\ UNCHANGED <<backends, req, phase, response>>
    /\ UNCHANGED <<gateVars, tokenVars, concVars>>

\* Expire that takes the sibling calls down with it
ExpireCancelling(t) ==
    /\ phase = "calling"
    /\ calls[t].state = "pending"
    /\ calls[t].elapsed = backends[t].timeout
    /\ calls' = [s \in Targets |->
                    IF calls[s].state = "pending"
                    THEN [calls[s] EXCEPT !.state = "settled",
                                          !.result = ErrorResult(backends[s], "TIMEOUT")]
                    ELSE calls[s]]
    /\ UNCHANGED <<backends, req, phase, upstream, response>>
    /\ UNCHANGED <<gateVars, tokenVars, concVars>>

\* the ClientTimeout of the call to target t runs out: asyncio.TimeoutError
Expire(t) ==
    /\ phase = "calling"
    /\ calls[t].state = "pending"
    /\ calls[t].elapsed = backends[t].timeout
    /\ calls' = [calls EXCEPT ![t].state = "settled",
                              ![t].result = ErrorResult(backends[t], "TIMEOUT")]
    /\ UNCHANGED <<backends, req, phase, upstream, response>>
    /\ UNCHANGED <<gateVars, tokenVars, concVars>>

\* Respond and Expire with the order of completion recorded in seq
RespondInOrder(t, answer) ==
    /\ phase = "calling"
    /\ calls[t].state = "pending"
    /\ calls' = [calls EXCEPT ![t].state = "settled",
                              ![t].elapsed = 0,
                              ![t].seq = NextSeq,
                              ![t].result = call_backend(backends[t], answer)]
    /\ upstream' = [upstream EXCEPT ![t] = answer]
    /\ UNCHANGED <<backends, req, phase, response>>
    /\ UNCHANGED <<gateVars, tokenVars, concVars>>

ExpireInOrder(t) ==
    /\ phase = "calling"
    /\ calls[t].state = "pending"
    /\ calls[t].elapsed = backends[t].timeout
    /\ calls' = [calls EXCEPT ![t].state = "settled",
                              ![t].seq = NextSeq,
                              ![t].result = ErrorResult(backends[t], "TIMEOUT")]
    /\ UNCHANGED <<backends, req, phase, upstream, response>>
    /\ UNCHANGED <<gateVars, tokenVars, concVars>>

\* one unit of time passes for every call in flight
TimePasses ==
    /\ phase = "calling"
    /\ \E t \in Targets : calls[t].state = "pending"
    /\ \A t \in Targets :
          calls[t].state = "pending" => calls[t].elapsed < backends[t].timeout
    /\ calls' = [t \in Targets |->
                    IF calls[t].state = "pending"
                    THEN [calls[t] EXCEPT !.elapsed = @ + 1]
                    ELSE calls[t]]
    /\ UNCHANGED <<backends, req, phase, upstream, response>>
    /\ UNCHANGED <<gateVars, tokenVars, concVars>>

\* the results of the calls, in the order in which the calls completed
GatheredResults_in_completion_order ==
    IF \A i \in Targets : \E t \in Targets : calls[t].seq = i
    THEN [i \in Targets |-> calls[CHOOSE t \in Targets : calls[t].seq = i].result]
    ELSE [t \in Targets |-> calls[t].result]

\* the results of the calls, in registry order
GatheredResults == [t \in Targets |-> calls[t].result]

\* call_all_backends keeps the results that are dicts
ValidResults == SelectSeq(GatheredResults, LAMBDA result : result.is_dict)

\* every call has settled: gather returns and the handler builds its response
Finish ==
    /\ phase = "calling"
    /\ \A t \in Targets : calls[t].state \in {"settled", "none"}
    /\ response' =
          IF req.route = "/health" THEN HealthResponse(GatheredResults)
          ELSE IF req.route \in DirectRoutes
          THEN DirectResponse(req.route,
                              calls[CHOOSE t \in Targets : calls[t].state = "settled"].result)
          ELSE UnifiedResponse(req.route, ValidResults)
    /\ phase' = "done"
    /\ UNCHANGED <<backends, req, calls, upstream>>
    /\ UNCHANGED <<gateVars, tokenVars, concVars>>

FanIdle == InitFanVars({<<>>})

\* ------------------------------------------------------------------------
\* Specifications
\* ------------------------------------------------------------------------
GateIdle == InitGate({<<>>}, {1}, {100})

ConcIdle == InitConcVars

TokenIdle == InitTokenVars({24}, {FALSE}) /\ jwt_exp_inclusive

\* The whole pipeline, every request shape, threshold 1
Init == InitGate(AllowedIpsEnv, {1}, {100}) /\ TokenIdle /\ FanIdle /\ ConcIdle

Next == Advance \/ Request

Spec == Init /\ [][Next]_vars

\* The rate limiter under plain requests from two admitted clients
InitRate ==
    InitGate({<<"8.8.8.0/24">>}, 1..MaxRequests, WindowEnv) /\ TokenIdle /\ FanIdle /\ ConcIdle

NextRate == Advance \/ PlainRequest

SpecRate == InitRate /\ [][NextRate]_vars

\* The token service and the credential validator
InitToken == GateIdle /\ InitTokenVars(JwtExpireHoursEnv, BOOLEAN) /\ FanIdle /\ ConcIdle

NextToken == Tick \/ CreateToken \/ AdvanceClock \/ Authenticate

SpecToken == InitToken /\ [][NextToken]_vars

\* The aggregation gateway
InitFan == GateIdle /\ TokenIdle /\ InitFanVars(Registries) /\ ConcIdle

NextFan ==
    \/ \E route \in Routes, cred \in RequestCredentials : StartRequest(route, cred)
    \/ \E route \in DirectRoutes, name \in PlaceNames : StartDirect(route, name)
    \/ AwaitNext
    \/ \E t \in Targets : \E answer \in AnswersTo(req.route) : Respond(t, answer)
    \/ \E t \in Targets : Expire(t)
    \/ TimePasses
    \/ Finish

SpecFan == InitFan /\ [][NextFan]_vars

\* ... with the event loop running its timers and ready tasks
SpecFanFair ==
    /\ SpecFan
    /\ WF_vars(TimePasses)
    /\ WF_vars(AwaitNext)
    /\ \A n \in 1..Len(AllBackends) : WF_vars(n \in Targets /\ Expire(n))
    /\ WF_vars(Finish)

\* The merging routes with the order of completion of the calls recorded
NextOrder ==
    \/ \E route \in MergeRoutes : StartRequest(route, NoCredentials)
    \/ \E t \in Targets : \E answer \in AnswersTo(req.route) : RespondInOrder(t, answer)
    \/ \E t \in Targets : ExpireInOrder(t)
    \/ TimePasses
    \/ Finish

SpecOrder == InitFan /\ [][NextOrder]_vars

\* The user listing over upstreams whose users have names and ids with '-'
InitKey == GateIdle /\ TokenIdle /\ InitFanVars(KeyRegistries) /\ ConcIdle

NextKey ==
    \/ StartRequest("/users/all", NoCredentials)
    \/ \E t \in Targets : \E answer \in UserListings : Respond(t, answer)
    \/ \E t \in Targets : Expire(t)
    \/ TimePasses
    \/ Finish

SpecKey == InitKey /\ [][NextKey]_vars

\* Overlapping requests of one client
InitConc ==
    InitGate({<<"8.8.8.0/24">>}, 1..MaxRequests, WindowEnv) /\ TokenIdle /\ FanIdle /\ ConcIdle

NextConc ==
    \/ Advance
    \/ \E r \in Slots : Arrive(r)
    \/ \E r \in Slots : RunChecks(r)
    \/ \E r \in Slots : BodyRead(r)
    \/ \E r \in Slots : HandlerReturns(r)

SpecConc == InitConc /\ [][NextConc]_vars

\* ------------------------------------------------------------------------
\* Rate limiter: blocking
\* ------------------------------------------------------------------------
\* number of accepted requests of client c inside the window ending at t
AcceptedInWindow(c, t) ==
    IF c \in DOMAIN accepted_log
    THEN Cardinality({i \in 1..Len(accepted_log[c]) :
                        accepted_log[c][i] > t - rate_limit_window})
    ELSE 0

\* the step from the unprimed to the primed state is a request that reached
\* the rate-limit step of security_middleware
RateLimitedRequestStep ==
    /\ now' = now
    /\ last'.time = now
    /\ last'.step \in RateSteps

\* C1: once N requests of a client were accepted inside one window, its next
\* request that reaches the rate limiter is answered 429 and the client is
\* blocked; every later such request less than 300 seconds after that
\* rejection is answered 429 too, whether or not the window has elapsed.
C1_BlockHoldsFor300s ==
    [][RateLimitedRequestStep =>
        LET c == last'.client IN
        /\ AcceptedInWindow(c, now) >= rate_limit_requests =>
              /\ last'.status = 429
              /\ c \in DOMAIN blocked_ips_cache'
              /\ blocked_ips_cache'[c] > now
        /\ (c \in DOMAIN trigger_time /\ now < trigger_time[c] + BlockSeconds) =>
              last'.status = 429]_vars

\* a 429 given after the window of the triggering rejection has fully elapsed
C1_Witness ==
    /\ last.step = "rate"
    /\ last.status = 429
    /\ last.time = now
    /\ last.client \in DOMAIN trigger_time
    /\ now >= trigger_time[last.client] + rate_limit_window
    /\ now < trigger_time[last.client] + BlockSeconds
    /\ AcceptedInWindow(last.client, now) = 0

\* C10: a request of a client whose block is still running is answered 429
\* and changes neither the client's timestamps nor its blockedUntil (nor any
\* other entry), so requests during a block never extend it.
C10_BlockedRequestChangesNothing ==
    [][\A c \in Clients :
         (/\ c \in DOMAIN blocked_ips_cache
          /\ now < blocked_ips_cache[c]
          /\ RateLimitedRequestStep
          /\ last'.client = c)
         => /\ last'.status = 429
            /\ rate_limit_storage' = rate_limit_storage
            /\ blocked_ips_cache' = blocked_ips_cache]_vars

\* a request rejected well inside a block that still ends 300 seconds after
\* the rejection that started it
C10_Witness ==
    /\ last.step = "rate"
    /\ last.status = 429
    /\ last.time = now
    /\ last.client \in DOMAIN trigger_time
    /\ trigger_time[last.client] < now
    /\ last.client \in DOMAIN blocked_ips_cache
    /\ blocked_ips_cache[last.client] = trigger_time[last.client] + BlockSeconds
    /\ now < blocked_ips_cache[last.client]

\* ------------------------------------------------------------------------
\* Content scan
\* ------------------------------------------------------------------------
\* the bodies the blocked patterns are written for
BlockedBodies ==
    {<<"../", "../", "etc/passwd">>, <<"<script", ">">>,
     <<"UNION", " ", "select">>, <<"drop", " ", "table">>, <<"exec(">>}

\* C2: a non-exempt POST, PUT or PATCH request that passed the IP, rate-limit
\* and size checks and whose body matches a blocked pattern ends with status
\* 400 and never reaches the route handler.
C2_MaliciousBodyRejected ==
    (/\ last.step \notin {"none", "exempt", "ip", "rate", "size"}
     /\ last.method \in MutatingMethods
     /\ last.body \in BlockedBodies)
    => /\ last.status = 400
       /\ ~last.called_next

\* ------------------------------------------------------------------------
\* IP allow-list
\* ------------------------------------------------------------------------
\* C9: with an empty configured allow-list the IP check is skipped and no
\* request is answered 403, whatever its client address.
C9_EmptyAllowListAdmitsAll ==
    env_allowed_ips = <<>> => (last.step # "ip" /\ last.status # 403)


\* ------------------------------------------------------------------------
\* Token lifetime
\* ------------------------------------------------------------------------
\* validate_api_key was last called with the token create_jwt_token issued
GenuineTokenPresented == token # NoToken /\ auth.cred = token.cred

\* t0 + T, in ticks
Deadline == token.issued_at + HoursToTicks(jwt_expire_hours)

TokenAccepted == auth.res.verify.result = "payload"

\* C6 as stated: a token issued at t0 under time-to-live T verifies at every
\* time strictly before t0+T and fails at every time strictly after t0+T,
\* whatever claims the caller supplied.
C6_ValidExactlyUntilTtl ==
    GenuineTokenPresented =>
        /\ auth.at < Deadline => TokenAccepted
        /\ auth.at > Deadline => ~TokenAccepted

\* C6 amended: when the caller's claims carry no nbf and no aud, the token
\* verifies at every time up to one second before t0+T and fails at every
\* time from one second after t0+T on (expiry is kept in whole seconds).
C6_ValidUntilTtlToTheSecond ==
    (/\ GenuineTokenPresented
     /\ token.claims.nbf = None
     /\ token.claims.aud = "")
    => /\ auth.at <= Deadline - TicksPerSecond => TokenAccepted
       /\ auth.at >= Deadline + TicksPerSecond => ~TokenAccepted

\* a token whose caller supplied its own exp, iat and iss is still accepted
\* one second before t0+T
C6_Witness ==
    /\ GenuineTokenPresented
    /\ token.claims.exp = 0
    /\ token.issued_at % TicksPerSecond # 0
    /\ auth.at = Deadline - TicksPerSecond
    /\ TokenAccepted

\* ------------------------------------------------------------------------
\* Invalid tokens
\* ------------------------------------------------------------------------
Seen(k) == seen[k] # NoAuth.res

\* C7: verify_jwt_token never raises and answers None for an expired token,
\* a token with a bad signature and a malformed token alike, and
\* validate_api_key takes the same path and gives the same response for each.
C7_InvalidTokensIndistinguishable ==
    /\ ~auth.res.verify.raised
    /\ \A k \in InvalidKinds :
          Seen(k) => (seen[k].verify.result = "None" /\ ~seen[k].verify.raised)
    /\ \A k1, k2 \in InvalidKinds :
          (Seen(k1) /\ Seen(k2)) => Response(seen[k1]) = Response(seen[k2])

\* all three kinds of invalid token have been presented
C7_Witness ==
    /\ \A k \in InvalidKinds : Seen(k)
    /\ seen["expired"].status = 401
    /\ seen["expired"].verify.logged # seen["bad_signature"].verify.logged

\* ------------------------------------------------------------------------
\* Route authentication
\* ------------------------------------------------------------------------
\* C3: a gateway data route runs its handler and calls backends only for a
\* request whose bearer credential validate_api_key accepts; without one the
\* answer is 401 and no outbound call is made.
C3_DataRoutesRequireCredential ==
    (/\ req.route \in FanOutRoutes
     /\ phase # "idle"
     /\ (req.cred.kind = "none" \/ ~validate_api_key(req.cred, clock).authorized))
    => /\ \A t \in Targets : calls[t].state = "none"
       /\ phase = "done" => response.status = 401

\* ------------------------------------------------------------------------
\* Fan-out with partial failure
\* ------------------------------------------------------------------------
Settled(t) == calls[t].state = "settled"

\* target t answered 200 with the body of the upstream contract
Succeeded(t) ==
    /\ Settled(t)
    /\ upstream[t].status = 200
    /\ upstream[t].success
    /\ upstream[t].schema = "object"

TimedOut(t) == Settled(t) /\ upstream[t] = NoAnswer

\* target t failed in one of the classified ways
Failed(t) == TimedOut(t) \/ (Settled(t) /\ upstream[t].status \in {401, 403, 500, 404, 0})

\* an entity without its tags
Untag(x) == [name |-> x.name, userid |-> x.userid]

\* the entities in the answer of target t, without their tags
Returned(t) == {Untag(e) : e \in SeqToSet(upstream[t].items)}

FanOutDone == phase = "done" /\ req.route \in FanOutRoutes

\* the entries of the merged collection tagged with target t
TaggedWith(t) == SelectSeq(response.items, LAMBDA x : x.backend_name = backends[t].name)

\* C4: when m of the k targets fail (0 < m < k) in any mix of 401, 403, 5xx,
\* other status, timeout or connection error and the others succeed, the
\* response is a success, backend_sources holds exactly the succeeding names,
\* each once, and the merged collection holds exactly the entities the
\* succeeding targets returned.
C4_PartialFailureMerge ==
    (/\ FanOutDone
     /\ \A t \in Targets : Failed(t) \/ Succeeded(t)
     /\ \E t \in Targets : Failed(t)
     /\ \E t \in Targets : Succeeded(t))
    => /\ response.status = 200
       /\ response.success
       /\ SeqToSet(response.backend_sources) = {backends[t].name : t \in {u \in Targets : Succeeded(u)}}
       /\ Len(response.backend_sources) = Cardinality({t \in Targets : Succeeded(t)})
       /\ \A i \in 1..Len(response.items) :
             \E t \in Targets :
                /\ Succeeded(t)
                /\ response.items[i].backend_name = backends[t].name
                /\ response.items[i].place_location = backends[t].location
                /\ Untag(response.items[i]) \in Returned(t)
       /\ \A t \in Targets :
             Succeeded(t) =>
                \A j \in 1..Len(upstream[t].items) :
                    \E i \in 1..Len(response.items) :
                        Untag(response.items[i]) = Untag(upstream[t].items[j])
       /\ req.route # "/users/all" =>
             \A t \in Targets :
                Succeeded(t) =>
                    TaggedWith(t) = [j \in 1..Len(upstream[t].items) |->
                                        Tag(upstream[t].items[j], calls[t].result)]

\* three targets: one timed out, one answered with a device, one answered 500
C4_Witness ==
    /\ FanOutDone
    /\ req.route = "/devices/all"
    /\ Len(backends) = 3
    /\ TimedOut(1)
    /\ Succeeded(2) /\ Len(upstream[2].items) = 1
    /\ upstream[3].status = 500
    /\ response.backend_sources = <<"Place_2_ShowRoom">>
    /\ response.total = 1

\* ------------------------------------------------------------------------
\* Settling of the outbound calls
\* ------------------------------------------------------------------------
\* C5: every fan-out request returns; a call that is never answered is
\* classified TIMEOUT when its own deadline expires, and that expiry leaves
\* every sibling call as it was.
C5_EveryFanOutReturns ==
    /\ (phase = "calling") ~> (phase = "done")
    /\ [][\A t \in Targets :
            (/\ calls[t].state = "pending"
             /\ calls'[t].state = "settled"
             /\ calls'[t].result.error_code = "TIMEOUT")
            => /\ calls[t].elapsed = backends[t].timeout
               /\ \A u \in Targets \ {t} : calls'[u] = calls[u]]_vars

\* target 1 timed out, target 2 (longer timeout) answered, the response is out
C5_Witness ==
    /\ FanOutDone
    /\ Len(backends) = 3
    /\ TimedOut(1)
    /\ calls[1].result.error_code = "TIMEOUT"
    /\ Succeeded(2)
    /\ TimedOut(3)
    /\ response.status = 200
    /\ response.backend_sources = <<"Place_2_ShowRoom">>

\* ------------------------------------------------------------------------
\* User deduplication
\* ------------------------------------------------------------------------
Reports(t, u) == Succeeded(t) /\ u \in SeqToSet(upstream[t].items)

\* C8: a user reported with the same (name, userid) by two succeeding targets
\* appears exactly once in the listing of /users/all, and total_users counts
\* it once.
C8_SameUserListedOnce ==
    (phase = "done" /\ req.route = "/users/all" /\ response.status = 200)
    => \A u \in Entities :
          (\E t1, t2 \in Targets : t1 # t2 /\ Reports(t1, u) /\ Reports(t2, u))
          => /\ Cardinality({i \in 1..Len(response.items) :
                                Untag(response.items[i]) = Untag(u)}) = 1
             /\ response.total =
                  Cardinality({v \in Entities : \E t \in Targets : Reports(t, v)})

\* two targets report the same user, a third one another user
C8_Witness ==
    /\ phase = "done"
    /\ req.route = "/users/all"
    /\ Len(backends) = 3
    /\ \E u, v \in Entities :
          /\ u # v
          /\ Reports(1, u) /\ Reports(2, v) /\ Reports(3, u)
          /\ response.total = 2

\* ------------------------------------------------------------------------
\* Rate limiter: pruning
\* ------------------------------------------------------------------------
\* C11: in every reachable state every timestamp stored in a client's
\* rate-limit entry is newer than now - W, also while the client is idle or
\* blocked.
C11_NoStaleTimestamp ==
    \A c \in DOMAIN rate_limit_storage :
        \A i \in 1..Len(rate_limit_storage[c]) :
            rate_limit_storage[c][i] > now - rate_limit_window

\* C11 amended: right after check_rate_limit has handled a request of a
\* client whose block, if any, has run out, every timestamp in that client's
\* entry is newer than now - W; an idle or blocked client's entry keeps its
\* timestamps until then.
C11_PrunedOnAccess ==
    [][\A c \in Clients :
         (/\ RateLimitedRequestStep
          /\ last'.client = c
          /\ ~(c \in DOMAIN blocked_ips_cache /\ now < blocked_ips_cache[c]))
         => /\ c \in DOMAIN rate_limit_storage'
            /\ \A i \in 1..Len(rate_limit_storage'[c]) :
                  rate_limit_storage'[c][i] > now - rate_limit_window]_vars

\* the client's earlier accepted request has left the window and was dropped
\* from the entry by the request just handled
C11_Witness ==
    /\ last.step = "handler"
    /\ last.time = now
    /\ rate_limit_requests = 2
    /\ last.client \in DOMAIN accepted_log
    /\ Len(accepted_log[last.client]) = 2
    /\ accepted_log[last.client][1] <= now - rate_limit_window
    /\ rate_limit_storage[last.client] = <<now>>

\* ------------------------------------------------------------------------
\* Backend-identity tags
\* ------------------------------------------------------------------------
\* the registered target named n
TargetNamed(n) == CHOOSE t \in Targets : backends[t].name = n

\* C12: every entity of a merged collection (devices, attendance records,
\* users, summaries) carries backend_name and place_location, equal to the
\* registry name and the configured location of a succeeding target whose
\* answer contained the entity, whatever tags the upstream put in it.
C12_EntitiesCarryRegistryTags ==
    (phase = "done" /\ req.route \in MergeRoutes)
    => \A i \in 1..Len(response.items) :
          LET x == response.items[i] IN
          /\ \E t \in Targets : backends[t].name = x.backend_name
          /\ LET t == TargetNamed(x.backend_name) IN
             /\ Succeeded(t)
             /\ x.place_location = backends[t].location
             /\ x.backend_name \in SeqToSet(response.backend_sources)
             /\ IF req.route = "/summary/all"
                THEN Untag(x) = Untag(SummaryOf(upstream[t]))
                ELSE Untag(x) \in Returned(t)

\* an entity the upstream of target 1 had tagged as Place_3_Warehouse / Depot
\* comes out tagged with target 1's own name and location
C12_Witness ==
    /\ phase = "done"
    /\ req.route \in MergeRoutes
    /\ Len(backends) >= 1
    /\ Succeeded(1)
    /\ \E e \in SeqToSet(upstream[1].items) :
          /\ e.backend_name = "Place_3_Warehouse"
          /\ \E i \in 1..Len(response.items) :
                /\ Untag(response.items[i]) = Untag(e)
                /\ response.items[i].backend_name = "Place_1_BackOffice"
                /\ response.items[i].place_location = "Head Office"

\* ------------------------------------------------------------------------
\* Rate limiter under overlapping requests
\* ------------------------------------------------------------------------
\* the accepted requests of client c still inside the window ending at t
AcceptedStamps(log, c, t) ==
    IF c \in DOMAIN log
    THEN SelectSeq(log[c], LAMBDA ts : ts > t - rate_limit_window)
    ELSE <<>>

\* C13: however the requests of one client overlap, each run of
\* check_rate_limit is one atomic read-modify-write of the client's entry:
\* after it the entry holds exactly the timestamps of the accepted requests
\* of the window (none lost), never more than N of them, and a request is
\* accepted only if fewer than N accepted ones lie in its window.
C13_EntryUpdatedAtomically ==
    [][\A c \in Clients :
         (/\ RateLimitedRequestStep
          /\ \E r \in Slots : inflight[r].pc = "start" /\ inflight'[r].pc # "start"
          /\ last'.client = c
          /\ ~(c \in DOMAIN blocked_ips_cache /\ now < blocked_ips_cache[c]))
         => /\ rate_limit_storage'[c] = AcceptedStamps(accepted_log', c, now)
            /\ Len(rate_limit_storage'[c]) <= rate_limit_requests
            /\ (last'.status # 429 /\ c \in DOMAIN accepted_log
                /\ Len(accepted_log[c]) = rate_limit_requests)
               => accepted_log[c][1] <= now - rate_limit_window]_vars

\* two requests of the client are in flight at once, both were accepted at
\* the same instant and both timestamps are in the entry
C13_Witness ==
    /\ rate_limit_requests = 2
    /\ inflight[1].pc = "handler"
    /\ inflight[2].pc = "body"
    /\ inflight[1].client = inflight[2].client
    /\ inflight[1].client \in DOMAIN rate_limit_storage
    /\ rate_limit_storage[inflight[1].client] = <<now, now>>

\* ------------------------------------------------------------------------
\* Exempt paths
\* ------------------------------------------------------------------------
\* the step is a request handled by security_middleware
RequestStep == now' = now /\ last'.time = now /\ last'.step # "none"

\* C14: a request to /health, /, /docs, /redoc or /openapi.json is never
\* rejected by the IP, rate-limit, size or content check, leaves every
\* rate-limit entry and block as it was, reaches its handler even when its
\* client is blocked, and its response carries every fixed security header.
C14_ExemptPathsSkipChecks ==
    [][(RequestStep /\ last'.path \in {"/health", "/", "/docs", "/redoc", "/openapi.json"})
       => /\ last'.called_next
          /\ last'.status \notin {403, 429, 413, 400}
          /\ last'.events = <<>>
          /\ ~last'.body_read
          /\ rate_limit_storage' = rate_limit_storage
          /\ blocked_ips_cache' = blocked_ips_cache
          /\ security_headers \subseteq last'.headers]_vars

\* a POST with a malicious body to /health from a client whose block is
\* running went to the handler
C14_Witness ==
    /\ last.path = "/health"
    /\ last.time = now
    /\ last.method = "POST"
    /\ last.body = <<"exec(">>
    /\ last.client \in DOMAIN blocked_ips_cache
    /\ now < blocked_ips_cache[last.client]
    /\ last.called_next
    /\ last.status = 200

\* ------------------------------------------------------------------------
\* Order of the checks
\* ------------------------------------------------------------------------
\* the verdict of each check on the request that the step handles, taken in
\* the state the request finds
IpFails == Len(allowed_ips) > 0 /\ ~is_ip_allowed(last'.client, allowed_ips)

RateFails == ~check_rate_limit(last'.client, now, rate_limit_storage, blocked_ips_cache).ok

SizeFails == last'.content_length # NoHeader /\ last'.content_length > max_request_size

ContentFails ==
    /\ last'.method \in MutatingMethods
    /\ Len(last'.body) > 0
    /\ ~is_safe_request(last'.body)

\* the request stopped at a check with the given status: nothing after that
\* check ran
StoppedWith(code) == last'.status = code /\ ~last'.body_read /\ ~last'.called_next

\* C15: a non-exempt request goes through the IP check, the rate limiter,
\* the size check and the content scan in this order; the first check that
\* fails answers 403, 429, 413 or 400 and nothing after it runs; the handler
\* runs when none fails.
C15_FirstFailingCheckDecides ==
    [][(RequestStep /\ last'.path \notin ExemptPaths)
       => /\ IpFails =>
                /\ StoppedWith(403)
                /\ rate_limit_storage' = rate_limit_storage
                /\ blocked_ips_cache' = blocked_ips_cache
          /\ (~IpFails /\ RateFails) => StoppedWith(429)
          /\ (~IpFails /\ ~RateFails /\ SizeFails) => StoppedWith(413)
          /\ (~IpFails /\ ~RateFails /\ ~SizeFails /\ ContentFails) =>
                (last'.status = 400 /\ ~last'.called_next)
          /\ (~IpFails /\ ~RateFails /\ ~SizeFails /\ ~ContentFails) =>
                last'.called_next]_vars

\* ------------------------------------------------------------------------
\* Security events
\* ------------------------------------------------------------------------
\* C16: every 403, 429 and 400 of the gate comes with a log_security_event
\* call that carries the client key, and every 401 of validate_api_key
\* (missing and invalid credential alike) comes with one too.
C16_RejectionsAreLogged ==
    /\ last.status \in {403, 429, 400} =>
          \E i \in 1..Len(last.events) : last.events[i].client_ip = last.client
    /\ auth.res.status = 401 =>
          \E i \in 1..Len(auth.res.events) : auth.res.events[i].client_ip # "unknown"

\* ------------------------------------------------------------------------
\* Rate limiter: the violation event
\* ------------------------------------------------------------------------
\* the step is a request of client c, not blocked, that finds N or more of
\* c's timestamps inside the window
FindsLimitReached(c) ==
    /\ RateLimitedRequestStep
    /\ last'.client = c
    /\ ~(c \in DOMAIN blocked_ips_cache /\ now < blocked_ips_cache[c])
    /\ c \in DOMAIN rate_limit_storage
    /\ Len(SelectSeq(rate_limit_storage[c], LAMBDA ts : ts > now - rate_limit_window))
          >= rate_limit_requests

\* what the rate limiter does on such a request, with the severity given
BlocksAndLogs(c, severity) ==
    /\ last'.status = 429
    /\ c \in DOMAIN blocked_ips_cache'
    /\ blocked_ips_cache'[c] = now + 300
    /\ Len(last'.events) = 1
    /\ last'.events[1].type = "RATE_LIMIT_EXCEEDED"
    /\ last'.events[1].client_ip = c
    /\ last'.events[1].severity = severity

\* C17 as stated: a request that finds the in-window count at or above N
\* sets blockedUntil = now + 300 s and its SecurityEvent has severity HIGH.
C17_LimitEventIsHigh ==
    [][\A c \in Clients : FindsLimitReached(c) => BlocksAndLogs(c, "HIGH")]_vars

\* C17 amended: such a request sets blockedUntil = now + 300 s and its
\* RATE_LIMIT_EXCEEDED event has severity MEDIUM.
C17_LimitEventIsMedium ==
    [][\A c \in Clients : FindsLimitReached(c) => BlocksAndLogs(c, "MEDIUM")]_vars

\* the request that has just started a block
C17_Witness ==
    /\ last.step = "rate"
    /\ last.time = now
    /\ Len(last.events) = 1
    /\ last.events[1].type = "RATE_LIMIT_EXCEEDED"
    /\ last.client \in DOMAIN blocked_ips_cache
    /\ blocked_ips_cache[last.client] = now + 300
    /\ AcceptedInWindow(last.client, now) >= rate_limit_requests

\* ------------------------------------------------------------------------
\* Credential validation
\* ------------------------------------------------------------------------
\* validate_api_key has been called
Validated == auth.at # None

CredentialPresent == auth.cred.kind # "none"

\* jwt.decode accepts the credential at the time of the call
VerifiesAsToken == jwt_decode(auth.cred, auth.at).error = ""

IsStaticKey == auth.cred.kind = "opaque" /\ auth.cred.text \in api_keys

\* C18: validate_api_key authorizes exactly when a credential is present and
\* verifies as a token or is a static key (token first, key second), or no
\* credential is present and the development override is on; otherwise it
\* answers 401 with the challenge WWW-Authenticate: Bearer.
C18_AuthorizedExactlyWhen ==
    Validated =>
        /\ auth.res.authorized <=>
              \/ CredentialPresent /\ (VerifiesAsToken \/ IsStaticKey)
              \/ ~CredentialPresent /\ allow_no_auth
        /\ ~auth.res.authorized => (auth.res.status = 401 /\ auth.res.challenge = "Bearer")
        /\ (auth.res.authorized /\ CredentialPresent) =>
              auth.res.trace = IF VerifiesAsToken THEN <<"jwt">> ELSE <<"jwt", "api_key">>
        /\ (~auth.res.authorized /\ CredentialPresent) =>
              auth.res.trace = <<"jwt", "api_key", "invalid">>

\* in development mode a static key is accepted after the token check, and
\* the key check was needed
C18_Witness ==
    /\ Validated
    /\ allow_no_auth
    /\ auth.cred = Opaque("main-api-key-0001")
    /\ ~VerifiesAsToken
    /\ auth.res.authorized
    /\ auth.res.trace = <<"jwt", "api_key">>

\* ------------------------------------------------------------------------
\* Gateway health
\* ------------------------------------------------------------------------
\* target t answered its /health call 200 with status "healthy" in the body
AnsweredHealthy(t) ==
    Settled(t) /\ upstream[t].status = 200 /\ upstream[t].health = "healthy"

HealthyTargets == {t \in Targets : AnsweredHealthy(t)}

\* C19: GET /health answers 200 and reports "healthy" exactly when at least
\* one registered target answered its /health call with status "healthy";
\* timeouts, errors and other answers count as unhealthy, healthy_places is
\* the number of healthy targets, and with none the status is "unhealthy".
C19_HealthyIffOneTargetHealthy ==
    (phase = "done" /\ req.route = "/health")
    => /\ response.status = 200
       /\ response.health \in {"healthy", "unhealthy"}
       /\ response.health = "healthy" <=> HealthyTargets # {}
       /\ response.healthy_places = Cardinality(HealthyTargets)
       /\ response.total = Len(backends)

\* one target of three is healthy; one timed out and one answered 500 with a
\* body that says healthy
C19_Witness ==
    /\ phase = "done"
    /\ req.route = "/health"
    /\ Len(backends) = 3
    /\ TimedOut(1)
    /\ AnsweredHealthy(2)
    /\ upstream[3].status = 500 /\ upstream[3].health = "healthy"
    /\ response.health = "healthy"
    /\ response.healthy_places = 1

\* ------------------------------------------------------------------------
\* Direct operations
\* ------------------------------------------------------------------------
Registered(name) == \E t \in Targets : backends[t].name = name

\* the targets an outbound call was made to
Called == {t \in Targets : calls[t].state # "none"}

\* C20: a /place/{name}/... operation on a name that is not in the registry
\* answers 404 without any outbound call; on a registered name it makes one
\* outbound call, to that target only.
C20_DirectCallsNamedTargetOnly ==
    (req.route \in DirectRoutes /\ phase # "idle")
    => IF Registered(req.place)
       THEN /\ Called = {TargetNamed(req.place)}
            /\ phase = "done" => response.status # 404
       ELSE /\ Called = {}
            /\ phase = "done"
            /\ response.status = 404

\* an unregistered place was asked for while three backends are registered
C20_Witness ==
    /\ req.route = "/place/{place_name}/devices"
    /\ phase = "done"
    /\ Len(backends) = 3
    /\ req.place = "Place_9_Nowhere"
    /\ response.status = 404
    /\ \A t \in Targets : calls[t].state = "none" /\ upstream[t] = NoAnswer

\* ------------------------------------------------------------------------
\* Misbehaving targets
\* ------------------------------------------------------------------------
\* target t answered 200 with a body of an unexpected schema
Malformed(t) ==
    Settled(t) /\ upstream[t].status = 200 /\ upstream[t].schema # "object"

\* C21: whatever one target answers, a 200 body of an unexpected schema
\* included, the fan-out handler returns its normal response, built from the
\* well-formed answers of the other targets.
C21_MalformedAnswerIsContained ==
    FanOutDone
    => /\ response.status = 200
       /\ response.success
       /\ SeqToSet(response.backend_sources) =
             {backends[t].name : t \in {u \in Targets : Succeeded(u)}}

\* ------------------------------------------------------------------------
\* Concurrency of the health calls
\* ------------------------------------------------------------------------
\* the outbound call to target t has been started
Started(t) == calls[t].state \in {"pending", "settled"}

\* C22: the /health calls to all registered targets are in flight
\* concurrently: while the call to one target is still pending, the call to
\* every other target has been started too, so no call waits for another
\* target's call to settle.
C22_HealthCallsAreConcurrent ==
    (phase = "calling" /\ req.route = "/health")
    => \A t, u \in Targets : calls[t].state = "pending" => Started(u)

\* ------------------------------------------------------------------------
\* User deduplication: which entry is retained
\* ------------------------------------------------------------------------
\* the first target, in registry order, that reports user u
FirstReporter(u) == CHOOSE t \in Targets :
                        Reports(t, u) /\ \A v \in Targets : Reports(v, u) => t <= v

\* C23: in the listing of /users/all a user reported by several targets is
\* retained once, tagged with the backend_name and place_location of the
\* first target that reports it; the later reporters change nothing in the
\* entry and still appear in backend_sources.
C23_FirstReporterIsRetained ==
    (phase = "done" /\ req.route = "/users/all" /\ response.status = 200)
    => \A u \in Entities :
          (\E t \in Targets : Reports(t, u))
          => /\ \A i \in 1..Len(response.items) :
                   Untag(response.items[i]) = Untag(u)
                   => /\ response.items[i].backend_name = backends[FirstReporter(u)].name
                      /\ response.items[i].place_location =
                            backends[FirstReporter(u)].location
             /\ \E i \in 1..Len(response.items) : Untag(response.items[i]) = Untag(u)
             /\ \A t \in Targets :
                   Reports(t, u) => backends[t].name \in SeqToSet(response.backend_sources)

\* targets 1 and 3 report the same user; the entry carries target 1's name and
\* location and target 3 is among the sources
C23_Witness ==
    /\ phase = "done"
    /\ req.route = "/users/all"
    /\ response.status = 200
    /\ Len(backends) = 3
    /\ \E u \in Entities :
          /\ Reports(1, u) /\ Reports(3, u) /\ ~Reports(2, u)
          /\ response.total = 1
          /\ response.items[1].backend_name = backends[1].name
          /\ response.items[1].place_location = backends[1].location
          /\ backends[1].location # backends[3].location
          /\ backends[3].name \in SeqToSet(response.backend_sources)

\* ------------------------------------------------------------------------
\* Response phase
\* ------------------------------------------------------------------------
\* the events of the last request that were not written by the content scan
ResponseEvents == SelectSeq(last.events, LAMBDA e : e.type # "MALICIOUS_REQUEST")

\* C24: for every non-exempt request that reaches the handler, the response
\* phase writes a security event when the handler's status is 4xx or 5xx and
\* none otherwise, and the response carries the fixed security headers and
\* X-Process-Time.
C24_ErrorResponsesAreLogged ==
    last.step = "handler"
    => /\ last.status >= 400 <=> Len(ResponseEvents) > 0
       /\ security_headers \cup {"X-Process-Time"} \subseteq last.headers

\* ------------------------------------------------------------------------
\* Payload size
\* ------------------------------------------------------------------------
\* the last request got past the IP check and the rate limiter
ReachedSizeCheck == last.step \in {"size", "handler"}

\* C25: a non-exempt request whose payload is larger than the ceiling is
\* answered 413 before its body is scanned and before the handler runs,
\* whether or not it has a Content-Length header; a payload of exactly the
\* ceiling is accepted.
C25_OversizePayloadRejected ==
    ReachedSizeCheck
    => /\ BodySize(last.body) > max_request_size
          => last.status = 413 /\ ~last.body_read /\ ~last.called_next
       /\ (BodySize(last.body) = max_request_size
           /\ last.content_length \in {NoHeader, BodySize(last.body)})
          => last.step = "handler"

\* ------------------------------------------------------------------------
\* Total backend failure
\* ------------------------------------------------------------------------
\* target t failed, or answered 200 with success false
Unsuccessful(t) ==
    Failed(t) \/ (Settled(t) /\ upstream[t].status = 200 /\ ~upstream[t].success)

\* the body of a fan-out with nothing merged
EmptyListing ==
    /\ response.items = <<>>
    /\ response.total = 0
    /\ response.backend_sources = <<>>
    /\ response.places = <<>>

\* C26: a fan-out in which every registered target fails, or none is
\* registered, answers 200 with success true, an empty collection, a total of
\* 0 and empty backend_sources and places: the same status and success flag
\* as a fan-out whose targets all succeed with no data.
C26_TotalFailureLooksEmpty ==
    FanOutDone
    => /\ (\A t \in Targets : Unsuccessful(t))
          => response.status = 200 /\ response.success /\ EmptyListing
       /\ (\A t \in Targets : Succeeded(t) /\ upstream[t].items = <<>>)
          => response.status = 200 /\ response.success /\ response.total = 0

\* three registered targets: one times out, one answers 500, one cannot be
\* connected to
C26_Witness ==
    /\ FanOutDone
    /\ Len(backends) = 3
    /\ TimedOut(1)
    /\ Settled(2) /\ upstream[2].status = 500
    /\ Settled(3) /\ upstream[3].status = 0
    /\ response.success
    /\ EmptyListing

\* ------------------------------------------------------------------------
\* User deduplication: the key
\* ------------------------------------------------------------------------
\* the (name, userid) pairs the succeeding targets reported
ReportedPairs ==
    UNION {Returned(t) : t \in {u \in Targets : Succeeded(u)}}

\* the (name, userid) pairs of the listing
ListedPairs == {Untag(response.items[i]) : i \in 1..Len(response.items)}

\* C27: the listing of /users/all never collapses two users whose
\* (name, userid) pairs differ, also when a name or an id contains '-': every
\* reported pair is listed, and a user is dropped only when both components
\* equal those of a retained one.
C27_DistinctPairsBothListed ==
    (phase = "done" /\ req.route = "/users/all" /\ response.status = 200)
    => /\ ListedPairs = ReportedPairs
       /\ Len(response.items) = Cardinality(ReportedPairs)

\* ------------------------------------------------------------------------
\* Rate limiter: the end of a block
\* ------------------------------------------------------------------------
\* client c has a block that has run out
BlockExpired(c) == c \in DOMAIN blocked_ips_cache /\ now >= blocked_ips_cache[c]

\* the accepted requests of c inside the window ending now that came at or
\* after time t
AcceptedSince(c, t) ==
    IF c \in DOMAIN accepted_log
    THEN Cardinality({i \in 1..Len(accepted_log[c]) :
                        /\ accepted_log[c][i] > now - rate_limit_window
                        /\ accepted_log[c][i] >= t})
    ELSE 0

\* the step is a request of c that starts a block
StartsBlock(c) ==
    /\ RateLimitedRequestStep
    /\ last'.client = c
    /\ ~(c \in DOMAIN blocked_ips_cache /\ now < blocked_ips_cache[c])
    /\ last'.status = 429

\* C28: the first request of a client at or after its blockedUntil removes
\* that block; when W <= 300 s the request is accepted, with every earlier
\* timestamp pruned; and a new block starts only on a request that finds N
\* accepted requests inside the window, all of them, when W <= 300 s, made
\* after the previous block ran out.
C28_ExpiredBlockIsLifted ==
    [][\A c \in Clients :
         /\ (RateLimitedRequestStep /\ last'.client = c /\ BlockExpired(c))
            => /\ c \in DOMAIN blocked_ips_cache'
                  => blocked_ips_cache'[c] = now + BlockSeconds /\ last'.status = 429
               /\ rate_limit_window <= BlockSeconds
                  => /\ last'.status # 429
                     /\ c \notin DOMAIN blocked_ips_cache'
                     /\ rate_limit_storage'[c] = <<now>>
         /\ StartsBlock(c)
            => /\ AcceptedInWindow(c, now) >= rate_limit_requests
               /\ (rate_limit_window <= BlockSeconds /\ c \in DOMAIN trigger_time)
                  => AcceptedSince(c, trigger_time[c] + BlockSeconds)
                        >= rate_limit_requests]_vars

\* a request that arrived when the block had run out was accepted and left
\* the client without a block, under a window of at most 300 s
C28_Witness ==
    /\ rate_limit_window <= BlockSeconds
    /\ last.step = "handler"
    /\ last.time = now
    /\ last.client \in DOMAIN trigger_time
    /\ now >= trigger_time[last.client] + BlockSeconds
    /\ last.client \notin DOMAIN blocked_ips_cache
    /\ rate_limit_storage[last.client] = <<now>>

\* ------------------------------------------------------------------------
\* Rate-limit budget
\* ------------------------------------------------------------------------
\* the timestamps of client c that are inside the window of a request made now
InWindow(c) ==
    IF c \in DOMAIN rate_limit_storage
    THEN SelectSeq(rate_limit_storage[c], LAMBDA ts : ts > now - rate_limit_window)
    ELSE <<>>

\* the step has appended the request's timestamp to its client's entry
Charged ==
    /\ last'.client \in DOMAIN rate_limit_storage'
    /\ rate_limit_storage'[last'.client] = Append(InWindow(last'.client), now)

\* C29: the rate-limit budget is consumed exactly by the requests that pass
\* the rate-limit step: a request answered 403 by the allow-list or sent to
\* an exempt path leaves every entry and block unchanged, a request answered
\* 429 adds no timestamp, and a request that passes the step has its
\* timestamp appended also when the size check then answers 413 or the
\* content scan then flags its body.
C29_BudgetChargedAtRateStep ==
    [][RequestStep
       => /\ (last'.path \in ExemptPaths \/ last'.status = 403)
             => /\ rate_limit_storage' = rate_limit_storage
                /\ blocked_ips_cache' = blocked_ips_cache
          /\ last'.step = "rate"
             => \A c \in DOMAIN rate_limit_storage' :
                   \A i \in 1..Len(rate_limit_storage'[c]) :
                      /\ c \in DOMAIN rate_limit_storage
                      /\ rate_limit_storage'[c][i] \in SeqToSet(rate_limit_storage[c])
          /\ (last'.path \notin ExemptPaths /\ ~IpFails /\ ~RateFails)
             => Charged
          /\ (last'.path \notin ExemptPaths /\ last'.status = 413) => Charged
          /\ (last'.path \notin ExemptPaths /\ ~IpFails /\ ~RateFails /\ ContentFails)
             => Charged]_vars

\* a request answered 413 whose timestamp is the client's whole budget
C29_Witness ==
    /\ last.step = "size"
    /\ last.status = 413
    /\ last.time = now
    /\ last.client \in DOMAIN rate_limit_storage
    /\ rate_limit_storage[last.client] = <<now>>
    /\ Len(rate_limit_storage[last.client]) >= rate_limit_requests

\* ------------------------------------------------------------------------
\* Order of completion
\* ------------------------------------------------------------------------
\* what the call to target t came to, read off the upstream's answer alone
Outcome(t) ==
    IF upstream[t] = NoAnswer THEN ErrorResult(backends[t], "TIMEOUT")
    ELSE call_backend(backends[t], upstream[t])

\* the outcomes in registry order, without those that are not dicts
OutcomesInRegistryOrder ==
    SelectSeq([t \in Targets |-> Outcome(t)], LAMBDA result : result.is_dict)

\* the position in the registry of the target an entry is tagged with
RegistryIndex(x) == TargetNamed(x.backend_name)

\* C30: the response of a fan-out is a function of the registry and of the
\* per-target outcomes alone, whatever the order in which the calls completed:
\* the merged collection and backend_sources follow the registry order, and
\* so does the choice of the retained entry of a deduplicated user.
C30_ResponseIgnoresCompletionOrder ==
    (phase = "done" /\ req.route \in MergeRoutes)
    => /\ response = UnifiedResponse(req.route, OutcomesInRegistryOrder)
       /\ \A i, j \in 1..Len(response.items) :
             i < j => RegistryIndex(response.items[i]) <= RegistryIndex(response.items[j])
       /\ \A i, j \in 1..Len(response.backend_sources) :
             i < j => TargetNamed(response.backend_sources[i])
                         < TargetNamed(response.backend_sources[j])

\* target 3 completed first and target 1 last, both with the same user; the
\* entry listed is target 1's
C30_Witness ==
    /\ phase = "done"
    /\ req.route = "/users/all"
    /\ Len(backends) = 3
    /\ calls[3].seq = 1
    /\ calls[1].seq = 3
    /\ \E u \in Entities : Reports(1, u) /\ Reports(3, u)
    /\ response.total = 1
    /\ response.items[1].backend_name = backends[1].name
    /\ response.backend_sources = <<backends[1].name, backends[3].name>>

====
